---- MODULE Spec2Model ----
(***************************************************************************)
(* Model of the acm_meta metadata resolution core:                         *)
(*   crossref_client.CrossrefClient.fetch_metadata  (retry loop)           *)
(*   pipeline.MetadataPipeline                      (candidate loop)       *)
(*   normalize.normalize_metadata, models.PaperRecord                      *)
(*   storage.RecordStore                            (record list + files)  *)
(*                                                                         *)
(* Python strings are sequences of one-character strings, so that strip()  *)
(* and lower() are computed and not assumed.  Python values of mixed type  *)
(* (dict values, JSON values) are tagged records [t |-> type, v |-> value].*)
(***************************************************************************)
EXTENDS Integers, Sequences, FiniteSets, TLC

\* ------------------------------------------------------------------ bounds
\* max_retries of the client ranges over 0..MaxRetriesBound
MaxRetriesBound == 2
\* longest DOI candidate list a PDF yields
MaxCandidates == 2
\* longest id sequence handed to reorder
MaxOrderLen == 2
\* number of write calls write_bytes needs to put a file's bytes on disk
WriteChunks == 2
\* longest DOI text handed to generate_record_id
MaxDoiLen == 3
\* number of pieces the text of a PDF's first pages is put together from
MaxPieces == 5

\* ------------------------------------------------------------ python values
None == [t |-> "none"]
PyStr(s) == [t |-> "str", v |-> s]
PyInt(n) == [t |-> "int", v |-> n]
\* the text datetime.isoformat() + "Z" gives for second `sec` (no microseconds)
IsoZ(sec) == [t |-> "iso", v |-> sec]
\* a naive datetime: seconds since some origin, and the microsecond field
DateTime(sec, micro) == [sec |-> sec, micro |-> micro]

\* bool(value) of Python
Truthy(x) ==
    CASE x.t = "none" -> FALSE
      [] x.t = "str" -> x.v # <<>>
      [] x.t = "int" -> x.v # 0
      [] OTHER -> TRUE

\* `a or b` of Python
PyOr(a, b) == IF Truthy(a) THEN a ELSE b

\* dict.get(key, default)
Get(d, key, default) == IF key \in DOMAIN d THEN d[key] ELSE default

EmptyDict == [k \in {} |-> None]

\* ----------------------------------------------------------- python strings
Digits == {"0", "1", "2", "3", "4", "5", "6", "7", "8", "9"}

LowerChar(c) ==
    CASE c = "A" -> "a"
      [] c = "B" -> "b"
      [] c = "F" -> "f"
      [] c = "G" -> "g"
      [] OTHER -> c

\* str.lower()
Lower(s) == [i \in 1..Len(s) |-> LowerChar(s[i])]

RECURSIVE LStrip(_)
LStrip(s) == IF s # <<>> /\ Head(s) = " " THEN LStrip(Tail(s)) ELSE s

RECURSIVE RStrip(_)
RStrip(s) ==
    IF s # <<>> /\ s[Len(s)] = " " THEN RStrip(SubSeq(s, 1, Len(s) - 1)) ELSE s

\* str.strip()
Strip(s) == RStrip(LStrip(s))

\* str.isdigit()
IsDigit(s) == s # <<>> /\ \A i \in 1..Len(s) : s[i] \in Digits

DigitVal(c) == CHOOSE n \in 0..9 : ToString(n) = c

RECURSIVE ToInt(_)
\* int(s) for a digit string
ToInt(s) ==
    IF s = <<>> THEN 0
    ELSE 10 * ToInt(SubSeq(s, 1, Len(s) - 1)) + DigitVal(s[Len(s)])

\* ---------------------------------------------------------------- threads
\* callers that run concurrently (asyncio.to_thread in process_upload)
Threads == {"t1", "t2"}

\* -------------------------------------------------------------- error codes
NOT_FOUND == "CROSSREF_NOT_FOUND"
RATE_LIMIT == "CROSSREF_RATE_LIMIT"
SERVER_ERROR == "CROSSREF_SERVER_ERROR"
REQUEST_FAILED == "CROSSREF_REQUEST_FAILED"
DOI_NOT_FOUND == "DOI_NOT_FOUND"
MetaErrorCodes ==
    {DOI_NOT_FOUND, NOT_FOUND, RATE_LIMIT, SERVER_ERROR, REQUEST_FAILED,
     "PDF_PARSE_FAILED", "UNKNOWN_ERROR"}

\* ------------------------------------------------------ upstream messages
\* DOI-shaped strings: the same DOI in canonical form, with case and
\* surrounding blanks, a second DOI, and a blank one
DoiA == <<"a">>
DoiAVariant == <<" ", "A">>
DoiB == <<"b">>
DoiC == <<"c">>
DoiBlank == <<" ">>

\* the `message` object of a Crossref body (RawMetadataPayload), as a dict
MsgA ==
    [k \in {"title", "DOI", "issued", "URL"} |->
        CASE k = "title" -> <<PyStr(<<"t">>)>>
          [] k = "DOI" -> PyStr(DoiAVariant)
          [] k = "issued" -> [k2 \in {"date-parts"} |-> <<<<PyInt(2020)>>>>]
          [] k = "URL" -> PyStr(<<"u">>)]
\* no DOI of its own, year 0 given as text
MsgNoDoi ==
    [k \in {"title", "issued"} |->
        CASE k = "title" -> <<PyStr(<<"n">>)>>
          [] k = "issued" -> [k2 \in {"date-parts"} |-> <<<<PyStr(<<"0">>)>>>>]]
\* a blank DOI
MsgBlank ==
    [k \in {"title", "DOI"} |->
        CASE k = "title" -> <<PyStr(<<"z">>)>>
          [] k = "DOI" -> PyStr(DoiBlank)]
Messages == {MsgA, MsgNoDoi, MsgBlank}

\* --------------------------------------------------------- models.py
\* mutant: the id is made from the file name even when there is a DOI
RecordIdFromFile(doi, file_name) == <<"file:">> \o Lower(Strip(file_name))

\* mutant: the DOI is stripped but its case is kept
RecordIdKeepsCase(doi, file_name) ==
    IF Strip(doi) # <<>>
    THEN <<"doi:">> \o Strip(doi)
    ELSE <<"file:">> \o Lower(Strip(file_name))

\* generate_record_id(doi, file_name); "doi:" and "file:" are the prefixes
generate_record_id(doi, file_name) ==
    LET doi_value == Lower(Strip(doi))
    IN  IF doi_value # <<>>
        THEN <<"doi:">> \o doi_value
        ELSE <<"file:">> \o Lower(Strip(file_name))

\* PaperRecord(...)
PaperRecord(id, title, venue, year, authors, abstract, doi, file, url, at) ==
    [id |-> id, title |-> title, venue |-> venue, publication_year |-> year,
     author_list |-> authors, abstract |-> abstract, doi |-> doi,
     file_name |-> file, source_url |-> url, saved_at |-> at]

LegacyKeys ==
    {"Title", "Venue", "Publication year", "Author list", "Abstract", "DOI",
     "file_name", "source_url", "saved_at", "id"}

\* PaperRecord.to_legacy_dict
to_legacy_dict(r) ==
    [k \in LegacyKeys |->
        CASE k = "Title" -> PyStr(r.title)
          [] k = "Venue" -> PyStr(r.venue)
          [] k = "Publication year" -> PyOr(r.publication_year, PyStr(<<>>))
          [] k = "Author list" -> PyStr(r.author_list)
          [] k = "Abstract" -> PyStr(r.abstract)
          [] k = "DOI" -> PyStr(r.doi)
          [] k = "file_name" -> PyStr(r.file_name)
          [] k = "source_url" -> PyStr(r.source_url)
          [] k = "saved_at" -> IsoZ(r.saved_at.sec)
          [] k = "id" -> PyStr(r.id)]

\* the year branch of from_legacy_dict
LegacyYear(value) ==
    CASE value.t = "str" /\ IsDigit(value.v) -> PyInt(ToInt(value.v))
      [] value.t = "int" -> value
      [] OTHER -> None

\* the saved_at branch of from_legacy_dict: datetime.fromisoformat of the
\* text without its "Z", or utcnow() when absent or unparseable
LegacySavedAt(value, now) ==
    IF Truthy(value) /\ value.t = "iso" THEN DateTime(value.v, 0) ELSE now

\* the text of a string-typed pydantic field
Text(value) == IF value.t = "str" THEN value.v ELSE <<>>

\* PaperRecord.from_legacy_dict; `now` is what datetime.utcnow() gives
from_legacy_dict(data, now) ==
    LET record_id ==
            PyOr(Get(data, "id", None),
                 PyStr(generate_record_id(
                     Text(Get(data, "DOI", PyStr(<<>>))),
                     Text(Get(data, "file_name", PyStr(<<>>))))))
    IN  PaperRecord(
            Text(record_id),
            Text(Get(data, "Title", PyStr(<<>>))),
            Text(Get(data, "Venue", PyStr(<<>>))),
            LegacyYear(Get(data, "Publication year", None)),
            Text(Get(data, "Author list", PyStr(<<>>))),
            Text(Get(data, "Abstract", PyStr(<<>>))),
            Text(Get(data, "DOI", PyStr(<<>>))),
            Text(Get(data, "file_name", Get(data, "Title", PyStr(<<>>)))),
            Text(Get(data, "source_url", PyStr(<<>>))),
            LegacySavedAt(Get(data, "saved_at", None), now))

\* settings.CSV_COLUMNS
CSV_COLUMNS ==
    <<"Title", "Venue", "Publication year", "Author list", "Abstract", "DOI">>

\* models.EDITABLE_COLUMNS
EDITABLE_COLUMNS ==
    <<"Title", "Venue", "Publication year", "Author list", "Abstract", "DOI">>

Elems(seq) == {seq[i] : i \in 1..Len(seq)}

\* rows_from_records: one row per record, in order, the CSV columns only
rows_from_records(recs) ==
    [i \in 1..Len(recs) |->
        [c \in Elems(CSV_COLUMNS) |-> Get(to_legacy_dict(recs[i]), c, PyStr(<<>>))]]

\* ------------------------------------------------------- normalize.py
\* a float: its integer part and its first decimal; `inf` for infinity
PyFloat(whole, tenth) == [t |-> "float", v |-> whole, tenth |-> tenth, inf |-> FALSE]
PyInf == [t |-> "float", v |-> 0, tenth |-> 0, inf |-> TRUE]
\* a JSON list or object
PyList == [t |-> "list"]
PyDict == [t |-> "dict"]
\* an exception that leaves the function
Raised(e) == [t |-> "error", v |-> e]

\* int(text) for a str that is not all digits: blanks around the digits and
\* a sign are accepted, anything else is a ValueError
IntOfText(text) ==
    LET body == Strip(text)
    IN  IF IsDigit(body) THEN PyInt(ToInt(body))
        ELSE IF body # <<>> /\ Head(body) = "-" /\ IsDigit(Tail(body))
        THEN PyInt(0 - ToInt(Tail(body)))
        ELSE None

\* _coerce_year(value)
coerce_year(value) ==
    CASE value.t = "none" -> None
      [] value.t = "int" -> value
      [] value.t = "str" /\ IsDigit(value.v) -> PyInt(ToInt(value.v))
      [] value.t = "str" -> IntOfText(value.v)   \* int(value), or ValueError
      [] value.t = "float" /\ value.inf -> Raised("OverflowError")
      [] value.t = "float" -> PyInt(value.v)     \* int(value) truncates
      [] OTHER -> None                           \* TypeError

\* strip_tags is applied to the abstract; the messages here carry none
FirstOrEmpty(list) == IF list # <<>> THEN Text(list[1]) ELSE <<>>

\* normalize_metadata(message, file_name=..., doi_fallback=...); `now` is
\* what datetime.utcnow() gives, `pdf_abstract` what the PDF fallback gives
normalize_metadata(message, file_name, doi_fallback, pdf_abstract, now) ==
    LET title == FirstOrEmpty(Get(message, "title", <<>>))
        issued ==
            Get(Get(message, "issued", EmptyDict), "date-parts", <<<<None>>>>)
        year == IF issued # <<>> /\ issued[1] # <<>> THEN issued[1][1] ELSE None
        venue == FirstOrEmpty(Get(message, "container-title", <<>>))
        doi ==
            Strip(Text(PyOr(PyOr(Get(message, "DOI", None), PyStr(doi_fallback)),
                            PyStr(<<>>))))
        abstract_raw == Get(message, "abstract", None)
        abstract0 == IF abstract_raw.t = "str" THEN abstract_raw.v ELSE <<>>
        abstract == IF abstract0 = <<>> THEN pdf_abstract ELSE abstract0
    IN  PaperRecord(
            generate_record_id(doi, file_name),
            title, venue, coerce_year(year), <<>>, abstract, doi, file_name,
            Text(Get(message, "URL", PyStr(<<>>))), now)

\* ------------------------------------------------------------- pdf_io.py
\* \w of the regular expression
IsWordChar(c) == c \in Digits \cup {"a", "A", "b", "B", "_"}

\* \b at the position after the first i characters of text
Boundary(text, i) ==
    LET before == i >= 1 /\ IsWordChar(text[i])
        after == i + 1 <= Len(text) /\ IsWordChar(text[i + 1])
    IN  before # after

\* the class [^\s"<>]
InDoiClass(c) == c \notin {" ", "\"", "<", ">"}

\* number of consecutive digits from position i on
RECURSIVE DigitRun(_, _)
DigitRun(text, i) ==
    IF i <= Len(text) /\ text[i] \in Digits
    THEN 1 + DigitRun(text, i + 1)
    ELSE 0

\* number of consecutive characters of the class from position i on
RECURSIVE ClassRun(_, _)
ClassRun(text, i) ==
    IF i <= Len(text) /\ InDoiClass(text[i])
    THEN 1 + ClassRun(text, i + 1)
    ELSE 0

\* the greatest e in lo..hi with a word boundary after position e, 0 when
\* there is none: the greedy [^\s"<>]+ gives characters back until \b holds
RECURSIVE LastBoundary(_, _, _)
LastBoundary(text, lo, hi) ==
    IF hi < lo THEN 0
    ELSE IF Boundary(text, hi) THEN hi
    ELSE LastBoundary(text, lo, hi - 1)

\* where a match of DOI_RE that starts at position i ends, 0 when there is
\* no match at i: \b 1 0 \. \d{4,9} / [^\s"<>]+ \b
DoiMatchEnd(text, i) ==
    LET digits == DigitRun(text, i + 3)
        slash == i + 3 + digits
        run == ClassRun(text, slash + 1)
    IN  IF /\ i + 2 <= Len(text)
           /\ Boundary(text, i - 1)
           /\ text[i] = "1" /\ text[i + 1] = "0" /\ text[i + 2] = "."
           /\ digits >= 4 /\ digits <= 9
           /\ slash <= Len(text) /\ text[slash] = "/"
           /\ run >= 1
        THEN LastBoundary(text, slash + 1, slash + run)
        ELSE 0

\* DOI_RE.findall(text) from position i on: the matches from left to right,
\* none overlapping another
RECURSIVE FindAll(_, _)
FindAll(text, i) ==
    IF i > Len(text) THEN <<>>
    ELSE LET e == DoiMatchEnd(text, i)
         IN  IF e # 0
             THEN <<SubSeq(text, i, e)>> \o FindAll(text, e + 1)
             ELSE FindAll(text, i + 1)

\* str.rstrip(".,;")
RECURSIVE RStripPunctuation(_)
RStripPunctuation(s) ==
    IF s # <<>> /\ s[Len(s)] \in {".", ",", ";"}
    THEN RStripPunctuation(SubSeq(s, 1, Len(s) - 1))
    ELSE s

\* `match.strip().rstrip(".,;")` and `cleaned.lower()`
CleanMatch(match) == Lower(RStripPunctuation(Strip(match)))

\* mutant: every match is appended
AppendCandidateAlways(candidates, lowered) == Append(candidates, lowered)

\* `if lowered not in candidates: candidates.append(lowered)`
AppendCandidate(candidates, lowered) ==
    IF \E k \in 1..Len(candidates) : candidates[k] = lowered
    THEN candidates
    ELSE Append(candidates, lowered)

\* the loop over the matches, from match i on
RECURSIVE CollectCandidates(_, _, _)
CollectCandidates(matches, i, candidates) ==
    IF i > Len(matches) THEN candidates
    ELSE CollectCandidates(matches, i + 1,
                           AppendCandidate(candidates, CleanMatch(matches[i])))

\* extract_doi_candidates, given the text of the first max_pages pages
extract_doi_candidates(text) == CollectCandidates(FindAll(text, 1), 1, <<>>)

\* ----------------------------------------------------------- storage.py
\* RecordStore._normalize_doi
normalize_doi(doi) == Lower(Strip(doi))

\* index of the first record from position idx on whose id is record_id,
\* 0 when there is none (the `for idx, existing in enumerate(...)` loops)
RECURSIVE IndexOfId(_, _, _)
IndexOfId(recs, record_id, idx) ==
    IF idx > Len(recs) THEN 0
    ELSE IF recs[idx].id = record_id THEN idx
    ELSE IndexOfId(recs, record_id, idx + 1)

\* mutant: the replaced record moves to the end of the list
UpsertMoveToEnd(recs, record) ==
    LET idx == IndexOfId(recs, record.id, 1)
    IN  IF idx # 0
        THEN Append(SubSeq(recs, 1, idx - 1) \o SubSeq(recs, idx + 1, Len(recs)),
                    record)
        ELSE Append(recs, record)

\* mutant: the record is appended whether or not its id is stored
UpsertAlwaysAppend(recs, record) == Append(recs, record)

\* the list RecordStore.upsert leaves in self._records
UpsertRecords(recs, record) ==
    LET idx == IndexOfId(recs, record.id, 1)
    IN  IF idx # 0 THEN [recs EXCEPT ![idx] = record] ELSE Append(recs, record)

\* mutant: the records after the deleted one are dropped with it
DelAtTruncates(recs, idx) == SubSeq(recs, 1, idx - 1)

\* `del self._records[idx]`
DelAt(recs, idx) == SubSeq(recs, 1, idx - 1) \o SubSeq(recs, idx + 1, Len(recs))

\* RecordStore.get_by_id: the record, or None
get_by_id(recs, record_id) ==
    LET idx == IndexOfId(recs, record_id, 1)
    IN  IF idx # 0 THEN recs[idx] ELSE None

RECURSIVE IndexOfDoi(_, _, _)
\* mutant: the last record with the DOI is found
IndexOfDoiLast(recs, normalized, idx) ==
    LET hits == {j \in idx..Len(recs) : normalize_doi(recs[j].doi) = normalized}
    IN  IF hits = {} THEN 0 ELSE CHOOSE j \in hits : \A k \in hits : k <= j

\* index of the first record from position idx on whose DOI normalizes to
\* `normalized`, 0 when there is none
IndexOfDoi(recs, normalized, idx) ==
    IF idx > Len(recs) THEN 0
    ELSE IF normalize_doi(recs[idx].doi) = normalized THEN idx
    ELSE IndexOfDoi(recs, normalized, idx + 1)

\* RecordStore.find_by_doi: the record, or None
find_by_doi(recs, doi) ==
    LET normalized == normalize_doi(doi)
        idx == IF normalized = <<>> THEN 0 ELSE IndexOfDoi(recs, normalized, 1)
    IN  IF idx # 0 THEN recs[idx] ELSE None

\* the first loop of reorder: `seen` is the set of ids taken so far; the
\* dict id_to_record holds, for an id, the last record with that id
RECURSIVE ReorderTake(_, _, _, _)
ReorderTake(recs, order, i, seen) ==
    IF i > Len(order) THEN <<>>
    ELSE LET record_id == order[i]
             hits == {j \in 1..Len(recs) : recs[j].id = record_id}
         IN  IF hits # {} /\ record_id \notin seen
             THEN <<recs[CHOOSE j \in hits : \A k \in hits : k <= j]>>
                      \o ReorderTake(recs, order, i + 1, seen \cup {record_id})
             ELSE ReorderTake(recs, order, i + 1, seen)

\* the second loop of reorder: the records whose id was not taken
RECURSIVE ReorderRest(_, _, _)
\* mutant: every record is appended, taken before or not
ReorderRestAll(recs, i, seen) == SubSeq(recs, i, Len(recs))

ReorderRest(recs, i, seen) ==
    IF i > Len(recs) THEN <<>>
    ELSE IF recs[i].id \notin seen
         THEN <<recs[i]>> \o ReorderRest(recs, i + 1, seen)
         ELSE ReorderRest(recs, i + 1, seen)

\* mutant: the records whose id is not in `order` are not appended
ReorderDropMissing(recs, order) == ReorderTake(recs, order, 1, {})

\* the list RecordStore.reorder leaves in self._records
ReorderRecords(recs, order) ==
    LET taken == ReorderTake(recs, order, 1, {})
    IN  taken \o ReorderRest(recs, 1, {taken[i].id : i \in 1..Len(taken)})

\* mutant: a dict is rejected only when none of its keys is editable
UpdatesRejectedIfAllBad(updates) ==
    \/ DOMAIN updates = {}
    \/ \A field \in DOMAIN updates : field \notin Elems(EDITABLE_COLUMNS)

\* the checks update_fields makes before it takes the lock
UpdatesRejected(updates) ==
    \/ DOMAIN updates = {}
    \/ \E field \in DOMAIN updates : field \notin Elems(EDITABLE_COLUMNS)

\* legacy.update(updates)
DictUpdate(d, updates) ==
    [k \in DOMAIN d \cup DOMAIN updates |->
        IF k \in DOMAIN updates THEN updates[k] ELSE d[k]]

\* the record update_fields builds for the record at idx
UpdatedRecord(record, updates, now) ==
    from_legacy_dict(DictUpdate(to_legacy_dict(record), updates), now)

\* what _persist_files writes to records.json: the rows, as json.loads of the
\* file gives them back
JsonRows(recs) == [i \in 1..Len(recs) |-> to_legacy_dict(recs[i])]

\* what RecordStore._load builds from the rows of records.json
LoadRecords(rows, now) == [i \in 1..Len(rows) |-> from_legacy_dict(rows[i], now)]

\* ------------------------------------------------------------- HTTP answers
\* what session.get gives: a transport failure (requests.RequestException)
\* or a response with a status and a body
Exc == [kind |-> "exc"]
\* body kinds: "bad" is not JSON, "list" is JSON but no object, "obj" is a
\* JSON object (a dict, which may or may not hold "message")
BadBody == [json |-> "bad"]
ListBody == [json |-> "list"]
ObjBody(d) == [json |-> "obj", dict |-> d]
Http(status, body) == [kind |-> "http", status |-> status, body |-> body]

Bodies ==
    {BadBody, ListBody, ObjBody(EmptyDict)}
        \cup {ObjBody([k \in {"message"} |-> m]) : m \in Messages}
Responses ==
    {Exc}
        \cup {Http(s, BadBody) : s \in {304, 403, 404, 429, 500, 503}}
        \cup {Http(200, b) : b \in Bodies}
        \cup {Http(304, ObjBody([k \in {"message"} |-> MsgA]))}

\* the outcome of a response as the claims name it
Seen(resp) == IF resp.kind = "exc" THEN "exc" ELSE ToString(resp.status)

\* ---------------------------------------- CrossrefClient.fetch_metadata
\* State of one call: the loop variable `attempt`, the number of session.get
\* calls made, the exponents e of the time.sleep(backoff ** e) calls taken,
\* the outcomes seen, and how the call ended.
FetchIdle ==
    [status |-> "idle", doi |-> <<>>, attempt |-> 0, calls |-> 0,
     waits |-> <<>>, seen |-> <<>>, code |-> "none", message |-> EmptyDict]

FetchRaise(st, code) == [st EXCEPT !.status = "raised", !.code = code]

FetchReturn(st, message) ==
    [st EXCEPT !.status = "returned", !.message = message]

\* mutant: the budget test compares with the number of attempts
ExhaustedOffByOne(attempt, n) == attempt = n + 1

\* mutant: the budget test never succeeds
ExhaustedNever(attempt, n) == FALSE

\* `attempt == self.max_retries`
Exhausted(attempt, n) == attempt = n

\* `continue`: the next value of range(max_retries + 1), or the end of the
\* loop and the raise that follows it
FetchContinue(st, n) ==
    IF st.attempt + 1 < n + 1
    THEN [st EXCEPT !.attempt = @ + 1]
    ELSE FetchRaise(st, REQUEST_FAILED)

\* mutant: the sleep is one power of backoff longer
FetchSleepLonger(st, after, e) ==
    [st EXCEPT !.waits = Append(@, [after |-> after, exp |-> e + 1])]

\* `time.sleep(self.backoff ** e)` after an outcome of kind `after`
FetchSleep(st, after, e) ==
    [st EXCEPT !.waits = Append(@, [after |-> after, exp |-> e])]

\* mutant: a 404 is retried like a 429
On404Retried(st, n) ==
    IF Exhausted(st.attempt, n)
    THEN FetchRaise(st, NOT_FOUND)
    ELSE FetchContinue(FetchSleep(st, "http", st.attempt + 1), n)

\* `if resp.status_code == 404: raise MetaError(CROSSREF_NOT_FOUND, ...)`
On404(st, n) == FetchRaise(st, NOT_FOUND)

\* fetch_metadata is entered: range(max_retries + 1) may be empty
FetchBegin(doi, n) ==
    LET st == [FetchIdle EXCEPT !.status = "running", !.doi = doi]
    IN  IF 0 < n + 1 THEN st ELSE FetchRaise(st, REQUEST_FAILED)

\* resp.raise_for_status() raises HTTPError for 4xx and 5xx
RaiseForStatusRaises(status) == 400 <= status /\ status < 600

\* resp.json() and payload.get("message", {})
FetchParse(st, body) ==
    CASE body.json = "bad" -> FetchRaise(st, "JSONDecodeError")
      [] body.json = "list" -> FetchRaise(st, "AttributeError")
      [] OTHER -> FetchReturn(st, Get(body.dict, "message", EmptyDict))

\* one iteration of the loop, given what session.get did
FetchStep(st, resp, n) ==
    LET a == st.attempt
        s1 == [st EXCEPT !.calls = @ + 1, !.seen = Append(@, Seen(resp))]
    IN  IF resp.kind = "exc"
        THEN IF Exhausted(a, n)
             THEN FetchRaise(s1, REQUEST_FAILED)
             ELSE FetchContinue(FetchSleep(s1, "exc", a), n)
        ELSE CASE resp.status = 404 -> On404(s1, n)
               [] resp.status = 429 ->
                    IF Exhausted(a, n)
                    THEN FetchRaise(s1, RATE_LIMIT)
                    ELSE FetchContinue(FetchSleep(s1, "http", a + 1), n)
               [] 500 <= resp.status /\ resp.status < 600 ->
                    IF Exhausted(a, n)
                    THEN FetchRaise(s1, SERVER_ERROR)
                    ELSE FetchContinue(FetchSleep(s1, "http", a + 1), n)
               [] OTHER ->
                    IF RaiseForStatusRaises(resp.status)
                    THEN FetchRaise(s1, REQUEST_FAILED)
                    ELSE FetchParse(s1, resp.body)

\* what a call gives back
RetRecord(r) == [t |-> "record", v |-> r]
RetBool(b) == [t |-> "bool", v |-> b]
RetDict(d) == [t |-> "dict", v |-> d]
RetError(e) == [t |-> "error", v |-> e]

\* the whole of a fetch_metadata call, given what session.get does each
\* time it is called
RECURSIVE FetchRun(_, _, _)
FetchRun(st, resps, n) ==
    IF resps = <<>> \/ st.status # "running" THEN st
    ELSE FetchRun(FetchStep(st, Head(resps), n), Tail(resps), n)

\* ---------------------------------------------------------- pipeline.py
\* State of one process_local_pdf call: the candidates of the PDF, the index
\* of the candidate the loop is at, the candidates asked for so far with the
\* outcome of each, last_error, the record, and what find_by_doi gave.
PipeIdle ==
    [pc |-> "idle", file |-> <<>>, cands |-> <<>>, idx |-> 0, queried |-> <<>>,
     last_error |-> "none", error |-> "none", record |-> None,
     existing |-> None]

\* mutant: a rate limit is swallowed like a not-found
ContinuableWithRateLimit == {NOT_FOUND, RATE_LIMIT}

\* `if exc.code not in {MetaErrorCode.CROSSREF_NOT_FOUND}: raise`
Continuable == {NOT_FOUND}

\* mutant: the first candidate is passed as doi_fallback
DoiFallbackFirst(cands, idx) == cands[1]

\* `doi_fallback=doi`, the candidate of this iteration
DoiFallback(cands, idx) == cands[idx]

\* _process_pdf is entered with the candidates extract_doi_candidates gave
ProcessBegin(file, cands) ==
    IF cands = <<>>
    THEN [PipeIdle EXCEPT !.pc = "failed", !.file = file, !.error = DOI_NOT_FOUND]
    ELSE [PipeIdle EXCEPT !.pc = "loop", !.file = file, !.cands = cands,
                          !.idx = 1]

\* mutant: the loop's end raises DOI_NOT_FOUND whatever was caught
LoopEndErrorDoiNotFound(last_error) == DOI_NOT_FOUND

\* `raise last_error or MetaError(MetaErrorCode.DOI_NOT_FOUND, ...)`
LoopEndError(last_error) ==
    IF last_error # "none" THEN last_error ELSE DOI_NOT_FOUND

\* mutant: when the last candidate is not found a record holding only the
\* candidate DOI goes on to the store
ProcessStepStoresStub(p, out, now) ==
    LET doi == p.cands[p.idx]
        asked(code) ==
            Append(p.queried, [doi |-> doi, code |-> code, message |-> out.message])
    IN  IF out.status = "returned"
        THEN [p EXCEPT !.pc = "lookup",
                       !.queried = asked("ok"),
                       !.record = RetRecord(normalize_metadata(
                           out.message, p.file, DoiFallback(p.cands, p.idx),
                           <<>>, now))]
        ELSE IF out.code \notin MetaErrorCodes
        THEN [p EXCEPT !.pc = "failed", !.queried = asked(out.code),
                       !.error = out.code]
        ELSE IF out.code \notin Continuable
        THEN [p EXCEPT !.pc = "failed", !.queried = asked(out.code),
                       !.last_error = out.code, !.error = out.code]
        ELSE IF p.idx < Len(p.cands)
        THEN [p EXCEPT !.idx = @ + 1, !.queried = asked(out.code),
                       !.last_error = out.code]
        ELSE [p EXCEPT !.pc = "lookup", !.queried = asked(out.code),
                       !.last_error = out.code,
                       !.record = RetRecord(normalize_metadata(
                           MsgNoDoi, p.file, doi, <<>>, now))]

\* one iteration of the candidate loop; `out` is the fetch_metadata call as
\* it ended, `now` what datetime.utcnow() gives
ProcessStep(p, out, now) ==
    LET doi == p.cands[p.idx]
        asked(code) ==
            Append(p.queried, [doi |-> doi, code |-> code, message |-> out.message])
    IN  IF out.status = "returned"
        THEN [p EXCEPT !.pc = "lookup",
                       !.queried = asked("ok"),
                       !.record = RetRecord(normalize_metadata(
                           out.message, p.file, DoiFallback(p.cands, p.idx),
                           <<>>, now))]
        ELSE IF out.code \notin MetaErrorCodes
        THEN \* no MetaError: `except MetaError` does not catch it
             [p EXCEPT !.pc = "failed", !.queried = asked(out.code),
                       !.error = out.code]
        ELSE IF out.code \notin Continuable
        THEN [p EXCEPT !.pc = "failed", !.queried = asked(out.code),
                       !.last_error = out.code, !.error = out.code]
        ELSE IF p.idx < Len(p.cands)
        THEN [p EXCEPT !.idx = @ + 1, !.queried = asked(out.code),
                       !.last_error = out.code]
        ELSE \* the loop ends: `raise last_error or MetaError(DOI_NOT_FOUND)`
             [p EXCEPT !.pc = "failed", !.queried = asked(out.code),
                       !.last_error = out.code,
                       !.error = LoopEndError(out.code)]

\* mutant: the id of the record found is not taken over
ProcessLookupKeepsId(p, recs) ==
    LET existing == find_by_doi(recs, p.record.v.doi)
    IN  IF existing # None
        THEN [p EXCEPT !.pc = "upsert", !.existing = PyStr(existing.id)]
        ELSE [p EXCEPT !.pc = "upsert", !.existing = None]

\* `existing = self.store.find_by_doi(record.doi)` and
\* `if existing: record.id = existing.id`
ProcessLookup(p, recs) ==
    LET existing == find_by_doi(recs, p.record.v.doi)
    IN  IF existing # None
        THEN [p EXCEPT !.pc = "upsert", !.existing = PyStr(existing.id),
                       !.record = RetRecord([p.record.v EXCEPT !.id = existing.id])]
        ELSE [p EXCEPT !.pc = "upsert", !.existing = None]

\* ------------------------------------------------------------------ inputs
\* `max_retries: int = 2`
DefaultMaxRetries == 2

Files == {<<"f">>, <<"G">>}

\* records callers hand to upsert: two versions of one publication (from
\* two files, saved at different times), one with year 0, one without DOI
RecA1 == normalize_metadata(MsgA, <<"f">>, DoiA, <<>>, DateTime(1, 0))
RecA2 == normalize_metadata(MsgA, <<"G">>, DoiA, <<>>, DateTime(2, 5))
RecB == normalize_metadata(MsgNoDoi, <<"f">>, DoiB, <<>>, DateTime(1, 0))
RecG == normalize_metadata(MsgBlank, <<"G">>, DoiB, <<>>, DateTime(2, 5))
InputRecords == {RecA1, RecA2, RecB, RecG}

UnknownId == <<"doi:", "x">>
IdInputs == {r.id : r \in InputRecords} \cup {UnknownId}

RECURSIVE SeqsUpTo(_, _)
\* the sequences over S of length at most n
SeqsUpTo(S, n) ==
    IF n = 0 THEN {<<>>}
    ELSE LET shorter == SeqsUpTo(S, n - 1)
         IN  shorter \cup {Append(q, x) : q \in shorter, x \in S}

OrderInputs == SeqsUpTo(IdInputs, MaxOrderLen)

\* the `updates` dicts callers hand to update_fields: valid ones, the empty
\* one, and ones with a key that is not editable
UpdateInputs ==
    {EmptyDict,
     [k \in {"Unknown"} |-> PyStr(<<"x">>)],
     [k \in {"Title", "Unknown"} |-> PyStr(<<"x">>)],
     [k \in {"file_name"} |-> PyStr(<<"x">>)],
     [k \in {"DOI"} |-> PyStr(DoiB)]}

\* what Crossref holds for a DOI: its own spelling of DoiA, no DOI field for
\* DoiB, a blank DOI field for DoiC
ServerMessage(doi) ==
    CASE doi = DoiA -> MsgA
      [] doi = DoiB -> MsgNoDoi
      [] OTHER -> MsgBlank

\* what session.get may do for a request the pipeline makes
PipeResponses(doi) ==
    {Exc, Http(404, BadBody), Http(429, BadBody), Http(500, BadBody),
     Http(403, BadBody),
     Http(200, ObjBody([k \in {"message"} |-> ServerMessage(doi)]))}

\* what the caller of fetch_metadata sees of a call that ended
Outcome(st) == [status |-> st.status, code |-> st.code, message |-> st.message]

\* the fetch_metadata calls that can be made for doi with max_retries = n, each
\* as it ended
FetchOutcomes ==
    [n \in 0..MaxRetriesBound |->
        [doi \in {DoiA, DoiB, DoiC} |->
            {Outcome(st) :
                st \in {run \in {FetchRun(FetchBegin(doi, n), resps, n) :
                                    resps \in SeqsUpTo(PipeResponses(doi), n + 1)} :
                            run.status # "running"}}]]

\* the PDFs handed to the pipeline: a display name and the candidates
\* extract_doi_candidates finds in it
Pdf(file, cands) == [file |-> file, cands |-> cands]
Pdfs ==
    {pdf \in {Pdf(<<"f">>, <<DoiA>>), Pdf(<<"G">>, <<DoiA>>),
              Pdf(<<"f">>, <<DoiC, DoiB>>), Pdf(<<"G">>, <<DoiB, DoiC>>),
              Pdf(<<"f">>, <<>>), Pdf(<<"G">>, <<DoiC, DoiB, DoiA>>)} :
        Len(pdf.cands) <= MaxCandidates}

\* ------------------------------------------------------------------- state
VARIABLES
    max_retries,    \* CrossrefClient.max_retries
    fetch,          \* per thread: the fetch_metadata call it is in
    records,        \* RecordStore._records
    json_file,      \* records.json, as the rows json.loads gives
    csv_file,       \* records.csv, as its rows
    call,           \* the store call a caller has made and that has not run
    last,           \* the store call completed last, and what it gave back
    pipe,           \* per thread: the process_local_pdf call it is in
    lock,           \* RecordStore._lock: "free" or the thread that holds it
    thr,            \* per thread: the store method it is in, step by step
    serial,         \* the list the calls give when run one after another
                    \* in the order they took the lock
    store0,         \* the list the store held when racing pipelines started
    fcntl,          \* whether `import fcntl` succeeded on this platform
    flock,          \* the advisory lock on the lock file: "free" or a process
    disk,           \* the files of the storage directory, by name
    proc            \* per process: its RecordStore and where it is in it

threadVars == <<lock, thr, serial>>
diskVars == <<fcntl, flock, disk, proc>>
otherVars == <<threadVars, store0, diskVars>>
vars ==
    <<max_retries, fetch, records, json_file, csv_file, call, last, pipe,
      lock, thr, serial, store0, fcntl, flock, disk, proc>>
clientVars == <<max_retries, fetch, pipe, otherVars>>
storeVars == <<records, json_file, csv_file, call, last>>

\* `hit`: the call found a record with the id it was given; `rep`: 2 when
\* the call repeats the call before it
Last(op, ret, hit, rep) == [op |-> op, ret |-> ret, hit |-> hit, rep |-> rep]

\* a call of a store method with its arguments; NoCall when none is pending
Call(op, arg) == [op |-> op, arg |-> arg]
NoCall == Call("none", None)

\* a thread that is in no store method; `prev` is the record its previous
\* call upserted (None when that call was no upsert), `intact` whether no
\* other thread has since changed what is stored under that record's id
ThreadIdle ==
    [pc |-> "idle", op |-> "none", arg |-> None, rows |-> <<>>, ret |-> None,
     persists |-> FALSE, prev |-> None, intact |-> FALSE, n |-> 0,
     file_lock |-> FALSE]

\* a file: the rows its bytes encode, how many of the write calls that put
\* them there have been made, and whether two writers' bytes are mixed in it
File(data, written, mixed) ==
    [exists |-> TRUE, list |-> TRUE, data |-> data, written |-> written,
     mixed |-> mixed]
Absent ==
    [exists |-> FALSE, list |-> TRUE, data |-> <<>>, written |-> 0,
     mixed |-> FALSE]

\* the file holds all the bytes of one json.dumps / to_csv
Complete(f) == f.exists /\ ~f.mixed /\ f.written = WriteChunks

\* a complete JSON document that is not a list
NotAList == [File(<<>>, WriteChunks, FALSE) EXCEPT !.list = FALSE]

\* `isinstance(item, dict)` for an item of the parsed list
IsDict(item) == "t" \notin DOMAIN item

\* the str-typed fields of PaperRecord, by their legacy keys
TextKeys ==
    {"Title", "Venue", "Author list", "Abstract", "DOI", "file_name",
     "source_url"}

\* whether PaperRecord(...) accepts what from_legacy_dict hands it: a JSON
\* null where a str field is declared makes pydantic raise ValidationError
Validates(data) == \A k \in TextKeys \cap DOMAIN data : data[k].t # "none"

\* RecordStore._load up to `self._records = records`: a missing file, an
\* unparseable one and a document that is not a list give no rows; items
\* that are not dicts are skipped; from_legacy_dict of the others may raise
LoadOutcome(f, now) ==
    LET raw_data == IF Complete(f) /\ f.list THEN f.data ELSE <<>>
        items == SelectSeq(raw_data, IsDict)
    IN  IF \A i \in 1..Len(items) : Validates(items[i])
        THEN [ok |-> TRUE, records |-> LoadRecords(items, now)]
        ELSE [ok |-> FALSE, records |-> <<>>]

Procs == {"p1", "p2"}
JsonPath == "records.json"
CsvPath == "records.csv"
XlsxPath == "records.xlsx"

\* a process whose RecordStore is constructed and in no method
ProcIdle == [pc |-> "idle", records |-> <<>>, rows |-> <<>>, n |-> 0]

\* the storage directory after RecordStore() ran in it on no records
InitDisk ==
    /\ flock = "free"
    /\ disk = [f \in {"records.json", "records.json.tmp",
                       "records.csv", "records.csv.tmp",
                       "records.xlsx", "records.xlsx.tmp"} |->
                 CASE f = JsonPath -> File(JsonRows(<<>>), WriteChunks, FALSE)
                   [] f = CsvPath -> File(rows_from_records(<<>>), WriteChunks, FALSE)
                   [] OTHER -> Absent]
    /\ proc = [p \in Procs |-> ProcIdle]

InitOther ==
    /\ lock = "free"
    /\ thr = [t \in Threads |-> ThreadIdle]
    /\ serial = <<>>
    /\ fcntl = TRUE
    /\ InitDisk

\* RecordStore(): records.json is missing, _load leaves no records and
\* _persist_files writes the empty files
InitStore ==
    /\ records = <<>>
    /\ json_file = JsonRows(<<>>)
    /\ csv_file = rows_from_records(<<>>)
    /\ call = NoCall
    /\ last = Last("init", None, FALSE, 1)
    /\ store0 = <<>>

Init ==
    /\ max_retries = DefaultMaxRetries
    /\ fetch = [t \in Threads |-> FetchIdle]
    /\ pipe = [t \in Threads |-> PipeIdle]
    /\ InitOther
    /\ InitStore

InitClient ==
    /\ max_retries \in 0..MaxRetriesBound
    /\ fetch = [t \in Threads |-> FetchIdle]
    /\ pipe = [t \in Threads |-> PipeIdle]
    /\ InitOther
    /\ InitStore

\* ----------------------------------------------------------- client steps
\* a caller enters fetch_metadata(doi)
ClientCall(t, doi) ==
    /\ fetch[t].status # "running"
    /\ fetch' = [fetch EXCEPT ![t] = FetchBegin(doi, max_retries)]
    /\ UNCHANGED <<otherVars, max_retries, pipe, storeVars>>

\* session.get answers and the loop body runs
ClientAttempt(t, resp) ==
    /\ fetch[t].status = "running"
    /\ fetch' = [fetch EXCEPT ![t] = FetchStep(fetch[t], resp, max_retries)]
    /\ UNCHANGED <<otherVars, max_retries, pipe, storeVars>>

NextClient ==
    \/ \E doi \in {DoiA, DoiC} : ClientCall("t1", doi)
    \/ \E resp \in Responses : ClientAttempt("t1", resp)

SpecClient == InitClient /\ [][NextClient]_vars

\* session.get returns or raises within its timeout, and a sleep ends
SpecClientFair ==
    SpecClient /\ WF_vars(\E resp \in Responses : ClientAttempt("t1", resp))

\* ------------------------------------------------------------ store calls
\* mutant: only records.json is rewritten
PersistJsonOnly(recs) ==
    /\ json_file' = JsonRows(recs)
    /\ csv_file' = csv_file

\* _persist_files: both files are rewritten from the list
Persist(recs) ==
    /\ json_file' = JsonRows(recs)
    /\ csv_file' = rows_from_records(recs)

\* a caller calls a method of the store
Invoke(op, arg) ==
    /\ call.op = "none"
    /\ call' = Call(op, arg)
    /\ UNCHANGED <<records, json_file, csv_file, last, clientVars>>

\* RecordStore.upsert(record)
Upsert ==
    /\ call.op = "upsert"
    /\ records' = UpsertRecords(records, call.arg)
    /\ Persist(records')
    /\ last' = Last("upsert", RetRecord(call.arg),
                     IndexOfId(records, call.arg.id, 1) # 0,
                     IF last.op = "upsert" /\ last.ret = RetRecord(call.arg)
                     THEN 2 ELSE 1)
    /\ call' = NoCall
    /\ UNCHANGED clientVars

\* RecordStore.delete(record_id)
Delete ==
    /\ call.op = "delete"
    /\ LET idx == IndexOfId(records, call.arg, 1)
       IN  /\ IF idx # 0
              THEN /\ records' = DelAt(records, idx)
                   /\ Persist(records')
              ELSE UNCHANGED <<records, json_file, csv_file>>
           /\ last' = Last("delete", RetBool(idx # 0), idx # 0, 1)
    /\ call' = NoCall
    /\ UNCHANGED clientVars

\* RecordStore.reorder(order)
Reorder ==
    /\ call.op = "reorder"
    /\ records' = ReorderRecords(records, call.arg)
    /\ Persist(records')
    /\ last' = Last("reorder", None, records' # records, 1)
    /\ call' = NoCall
    /\ UNCHANGED clientVars

\* RecordStore.flush()
Flush ==
    /\ call.op = "flush"
    /\ Persist(records)
    /\ last' = Last("flush", None, FALSE, 1)
    /\ call' = NoCall
    /\ UNCHANGED <<records, clientVars>>

\* RecordStore.update_fields(record_id, updates)
UpdateFields ==
    /\ call.op = "update_fields"
    /\ LET record_id == call.arg.id
           updates == call.arg.updates
           idx == IndexOfId(records, record_id, 1)
       IN  IF UpdatesRejected(updates)
           THEN /\ last' = Last("update_fields", RetError("ValueError"), FALSE, 1)
                /\ UNCHANGED <<records, json_file, csv_file>>
           ELSE IF idx = 0
           THEN /\ last' = Last("update_fields", RetError("KeyError"), FALSE, 1)
                /\ UNCHANGED <<records, json_file, csv_file>>
           ELSE LET updated ==
                        UpdatedRecord(records[idx], updates, DateTime(9, 9))
                IN  /\ records' = [records EXCEPT ![idx] = updated]
                    /\ Persist(records')
                    /\ last' = Last("update_fields",
                                     RetDict(to_legacy_dict(updated)), TRUE, 1)
    /\ call' = NoCall
    /\ UNCHANGED clientVars

Next ==
    \/ \E r \in InputRecords : Invoke("upsert", r)
    \/ \E id \in IdInputs : Invoke("delete", id)
    \/ \E order \in OrderInputs : Invoke("reorder", order)
    \/ \E id \in IdInputs, u \in UpdateInputs :
          Invoke("update_fields", [id |-> id, updates |-> u])
    \/ Invoke("flush", None)
    \/ Upsert
    \/ Delete
    \/ Reorder
    \/ UpdateFields
    \/ Flush

Spec == Init /\ [][Next]_vars

\* --------------------------------------------------------- pipeline steps
\* process_local_pdf(pdf_path, display_name=...) is called
PipeStart(t, pdf) ==
    /\ pipe[t].pc \in {"idle", "done", "failed"}
    /\ pipe' = [pipe EXCEPT ![t] = ProcessBegin(pdf.file, pdf.cands)]
    /\ UNCHANGED <<otherVars, max_retries, fetch, storeVars>>

\* the loop body: fetch_metadata for the candidate, then normalize_metadata
PipeQuery(t, now) ==
    /\ pipe[t].pc = "loop"
    /\ \E out \in FetchOutcomes[max_retries][pipe[t].cands[pipe[t].idx]] :
          pipe' = [pipe EXCEPT ![t] = ProcessStep(pipe[t], out, now)]
    /\ UNCHANGED <<otherVars, max_retries, fetch, storeVars>>

\* self.store.find_by_doi(record.doi), under the store lock
PipeLookup(t) ==
    /\ pipe[t].pc = "lookup"
    /\ pipe' = [pipe EXCEPT ![t] = ProcessLookup(pipe[t], records)]
    /\ UNCHANGED <<otherVars, max_retries, fetch, storeVars>>

\* self.store.upsert(record), under the store lock, and the return
PipeUpsert(t) ==
    /\ pipe[t].pc = "upsert"
    /\ records' = UpsertRecords(records, pipe[t].record.v)
    /\ Persist(records')
    /\ last' = Last("upsert", pipe[t].record,
                     IndexOfId(records, pipe[t].record.v.id, 1) # 0, 1)
    /\ pipe' = [pipe EXCEPT ![t].pc = "done"]
    /\ UNCHANGED <<otherVars, max_retries, fetch, call>>

\* the store as an earlier session left it: empty, or holding a record of
\* DoiA whose DOI column was then edited to DoiB
RecA1Edited ==
    UpdatedRecord(RecA1, [k \in {"DOI"} |-> PyStr(DoiB)], DateTime(2, 5))

InitPipeline ==
    /\ max_retries = DefaultMaxRetries
    /\ fetch = [t \in Threads |-> FetchIdle]
    /\ pipe = [t \in Threads |-> PipeIdle]
    /\ InitOther
    /\ records \in {<<>>, <<RecA1Edited>>}
    /\ json_file = JsonRows(records)
    /\ csv_file = rows_from_records(records)
    /\ call = NoCall
    /\ last = Last("init", None, FALSE, 1)
    /\ store0 = <<>>

\* process_local_pdf calls, and deletes other callers make meanwhile
NextPipeline ==
    \/ \E pdf \in Pdfs : PipeStart("t1", pdf)
    \/ PipeQuery("t1", DateTime(3, 5))
    \/ PipeLookup("t1")
    \/ PipeUpsert("t1")
    \/ Invoke("delete", RecA1.id)
    \/ Delete

SpecPipeline == InitPipeline /\ [][NextPipeline]_vars

\* ------------------------------------------------------ racing pipelines
\* two process_local_pdf calls, one per thread, each made once; find_by_doi
\* and upsert each run under the store lock, so each is one step
RaceStart(t, pdf) ==
    /\ pipe[t].pc = "idle"
    /\ PipeStart(t, pdf)

NextRace ==
    \/ \E t \in Threads, pdf \in Pdfs : RaceStart(t, pdf)
    \/ PipeQuery("t1", DateTime(3, 5))
    \/ PipeQuery("t2", DateTime(4, 0))
    \/ \E t \in Threads : PipeLookup(t) \/ PipeUpsert(t)

\* the store as earlier calls left it: empty, holding the edited record, or
\* holding it and a second record with the same DOI
InitRace ==
    /\ max_retries = DefaultMaxRetries
    /\ fetch = [t \in Threads |-> FetchIdle]
    /\ pipe = [t \in Threads |-> PipeIdle]
    /\ InitOther
    /\ records \in {<<>>, <<RecA1Edited>>, <<RecA1Edited, RecB>>}
    /\ json_file = JsonRows(records)
    /\ csv_file = rows_from_records(records)
    /\ call = NoCall
    /\ last = Last("init", None, FALSE, 1)
    /\ store0 = records

SpecRace == InitRace /\ [][NextRace]_vars

\* ------------------------------------------------- store calls of threads
\* what a store method does to the list while it holds the lock: the list
\* it leaves, what it returns, and whether it calls _persist_files
StoreApply(op, arg, recs, now) ==
    LET out(rs, ret, persists) ==
            [records |-> rs, ret |-> ret, persists |-> persists]
    IN  CASE op = "upsert" -> out(UpsertRecords(recs, arg), RetRecord(arg), TRUE)
          [] op = "delete" ->
               LET idx == IndexOfId(recs, arg, 1)
               IN  IF idx # 0 THEN out(DelAt(recs, idx), RetBool(TRUE), TRUE)
                   ELSE out(recs, RetBool(FALSE), FALSE)
          [] op = "reorder" -> out(ReorderRecords(recs, arg), None, TRUE)
          [] op = "flush" -> out(recs, None, TRUE)
          [] op = "update_fields" ->
               LET idx == IndexOfId(recs, arg.id, 1)
               IN  IF idx = 0 THEN out(recs, RetError("KeyError"), FALSE)
                   ELSE LET updated == UpdatedRecord(recs[idx], arg.updates, now)
                        IN  out([recs EXCEPT ![idx] = updated],
                                RetDict(to_legacy_dict(updated)), TRUE)
          [] op = "get_by_id" ->
               LET found == get_by_id(recs, arg)
               IN  out(recs, IF found = None THEN None ELSE RetRecord(found),
                       FALSE)

\* mutant: the lock is taken whether or not another thread holds it
LockIgnored(l) == TRUE

\* `with self._lock:` is entered when no thread holds the lock
LockFree(l) == l = "free"

\* the calls the threads make
ThreadCalls ==
    {Call("upsert", RecA1), Call("upsert", RecA2), Call("upsert", RecB),
     Call("delete", RecA1.id),
     Call("reorder", <<RecB.id, RecA1.id>>),
     Call("update_fields",
          [id |-> RecA1.id, updates |-> [k \in {"DOI"} |-> PyStr(DoiB)]]),
     Call("update_fields", [id |-> RecA1.id, updates |-> EmptyDict]),
     Call("flush", None),
     Call("get_by_id", RecA1.id)}

\* the positions of a method between taking the lock and releasing it
InSection == {"locked", "rows", "json", "csv", "release"}

\* thread t calls a store method; update_fields makes its checks first and
\* raises ValueError without taking the lock. What a method returns is in
\* `ret` until the method is left.
ThreadCall(t, c) ==
    /\ thr[t].pc = "idle"
    /\ thr' = [thr EXCEPT ![t] =
                 IF c.op = "update_fields" /\ UpdatesRejected(c.arg.updates)
                 THEN ThreadIdle
                 ELSE [@ EXCEPT !.pc = "called", !.op = c.op, !.arg = c.arg,
                                !.ret = None]]
    /\ UNCHANGED <<lock, serial, store0, diskVars, max_retries, fetch, pipe, storeVars>>

\* `with self._lock:` is entered
ThreadAcquire(t) ==
    /\ thr[t].pc = "called"
    /\ LockFree(lock)
    /\ lock' = t
    /\ thr' = [thr EXCEPT ![t].pc = "locked"]
    /\ serial' = StoreApply(thr[t].op, thr[t].arg, serial, DateTime(9, 9)).records
    /\ UNCHANGED <<store0, diskVars, max_retries, fetch, pipe, storeVars>>

\* the method reads and changes self._records
ThreadModify(t) ==
    /\ thr[t].pc = "locked"
    /\ LET out == StoreApply(thr[t].op, thr[t].arg, records, DateTime(9, 9))
           changed(id) == get_by_id(out.records, id) # get_by_id(records, id)
       IN  /\ records' = out.records
           /\ thr' = [u \in Threads |->
                        IF u = t
                        THEN [thr[u] EXCEPT
                                 !.pc = IF out.persists THEN "rows" ELSE "release",
                                 !.ret = out.ret, !.persists = out.persists]
                        ELSE IF thr[u].prev # None /\ changed(thr[u].prev.v.id)
                        THEN [thr[u] EXCEPT !.intact = FALSE]
                        ELSE thr[u]]
    /\ UNCHANGED <<lock, serial, store0, diskVars, json_file, csv_file, call, last,
                   max_retries, fetch, pipe>>

\* _persist_files: `rows = [record.to_legacy_dict() for ...]`
ThreadRows(t) ==
    /\ thr[t].pc = "rows"
    /\ thr' = [thr EXCEPT ![t].pc = "json", ![t].rows = JsonRows(records)]
    /\ UNCHANGED <<lock, serial, store0, diskVars, max_retries, fetch, pipe, storeVars>>

\* _persist_files: records.json is replaced by the rows
ThreadWriteJson(t) ==
    /\ thr[t].pc = "json"
    /\ json_file' = thr[t].rows
    /\ thr' = [thr EXCEPT ![t].pc = "csv", ![t].rows = <<>>]
    /\ UNCHANGED <<lock, serial, store0, diskVars, records, csv_file, call, last,
                   max_retries, fetch, pipe>>

\* _persist_files: records.csv is replaced by rows_from_records
ThreadWriteCsv(t) ==
    /\ thr[t].pc = "csv"
    /\ csv_file' = rows_from_records(records)
    /\ thr' = [thr EXCEPT ![t].pc = "release"]
    /\ UNCHANGED <<lock, serial, store0, diskVars, records, json_file, call, last,
                   max_retries, fetch, pipe>>

\* the `with` block is left and the method returns
ThreadRelease(t) ==
    /\ thr[t].pc = "release"
    /\ lock' = "free"
    /\ thr' = [thr EXCEPT ![t].pc = "idle", ![t].op = "none",
                          ![t].arg = None, ![t].ret = None,
                          ![t].persists = FALSE,
                          ![t].prev = IF thr[t].op = "upsert"
                                      THEN RetRecord(thr[t].arg) ELSE None,
                          ![t].intact = (thr[t].op = "upsert")]
    /\ UNCHANGED <<serial, store0, diskVars, max_retries, fetch, pipe, storeVars>>

NextThreads ==
    \E t \in Threads :
        \/ \E c \in ThreadCalls : ThreadCall(t, c)
        \/ ThreadAcquire(t)
        \/ ThreadModify(t)
        \/ ThreadRows(t)
        \/ ThreadWriteJson(t)
        \/ ThreadWriteCsv(t)
        \/ ThreadRelease(t)

SpecThreads == Init /\ [][NextThreads]_vars

\* ------------------------------------------- processes and the directory
memVars ==
    <<max_retries, fetch, pipe, storeVars, threadVars, store0>>

\* mutant: the bytes are written to the target itself
TmpPathSame(path) == path

\* `path.with_suffix(path.suffix + ".tmp")`, `with_suffix(".csv.tmp")`,
\* `with_suffix(".xlsx.tmp")`
TmpPath(path) ==
    CASE path = JsonPath -> "records.json.tmp"
      [] path = CsvPath -> "records.csv.tmp"
      [] path = XlsxPath -> "records.xlsx.tmp"

\* mutant: flock returns whether or not another process holds the lock
FlockIgnored(holder) == TRUE

\* `fcntl.flock(handle.fileno(), fcntl.LOCK_EX)` returns when no other open
\* file holds the lock
FlockFree(holder) == holder = "free"

\* the records the processes upsert: two versions stored under one id
ProcInputs == {RecA1, RecA1Edited}

\* what the kernel does with the lock when the process that may hold it
\* unlocks, closes the handle or dies
Unlocked(p) == IF flock = p THEN "free" ELSE flock

\* upsert(record) up to the call of _persist_files
ProcUpsert(p, record) ==
    /\ proc[p].pc = "idle"
    /\ proc' = [proc EXCEPT ![p].pc = "rows",
                            ![p].records = UpsertRecords(@, record)]
    /\ UNCHANGED <<fcntl, flock, disk, memVars>>

\* mutant: the rows on disk are kept and the process's rows follow them
ProcRowsMerged(p) ==
    /\ proc[p].pc = "rows"
    /\ proc' = [proc EXCEPT ![p].pc = "flock",
                            ![p].rows = disk[JsonPath].data
                                          \o JsonRows(proc[p].records)]
    /\ UNCHANGED <<fcntl, flock, disk, memVars>>

\* _persist_files: `rows = [record.to_legacy_dict() for ...]`
ProcRows(p) ==
    /\ proc[p].pc = "rows"
    /\ proc' = [proc EXCEPT ![p].pc = "flock",
                            ![p].rows = JsonRows(proc[p].records)]
    /\ UNCHANGED <<fcntl, flock, disk, memVars>>

\* _FileLock.acquire: the flock is taken only `if fcntl`
ProcFlock(p) ==
    /\ proc[p].pc = "flock"
    /\ fcntl => FlockFree(flock)
    /\ flock' = IF fcntl THEN p ELSE flock
    /\ proc' = [proc EXCEPT ![p].pc = "open_json"]
    /\ UNCHANGED <<fcntl, disk, memVars>>

\* write_bytes opens the temporary file, which truncates it
ProcOpenJson(p) ==
    /\ proc[p].pc = "open_json"
    /\ disk' = [disk EXCEPT ![TmpPath(JsonPath)] = File(proc[p].rows, 0, FALSE)]
    /\ proc' = [proc EXCEPT ![p].pc = "write_json", ![p].n = 0]
    /\ UNCHANGED <<fcntl, flock, memVars>>

\* write_bytes writes the next part of the bytes through its handle: to the
\* temporary file, or to the file that was renamed since the handle was opened
ProcWriteJson(p) ==
    /\ proc[p].pc = "write_json"
    /\ LET tmp == TmpPath(JsonPath)
           f == disk[tmp]
           mine == ~f.mixed /\ f.data = proc[p].rows /\ f.written = proc[p].n
       IN  disk' = IF f.exists
                   THEN [disk EXCEPT ![tmp] =
                            File(proc[p].rows, proc[p].n + 1, ~mine)]
                   ELSE [disk EXCEPT ![JsonPath].mixed = TRUE]
    /\ proc' = [proc EXCEPT ![p].n = @ + 1,
                            ![p].pc = IF proc[p].n + 1 = WriteChunks
                                      THEN "rename_json" ELSE "write_json"]
    /\ UNCHANGED <<fcntl, flock, memVars>>

\* `tmp_path.replace(path)`; FileNotFoundError when the temporary file is
\* gone, which leaves the `with self._file_lock` block
ProcRenameJson(p) ==
    /\ proc[p].pc = "rename_json"
    /\ LET tmp == TmpPath(JsonPath)
       IN  IF disk[tmp].exists
           THEN /\ disk' = [f \in DOMAIN disk |->
                              IF f = JsonPath THEN disk[tmp]
                              ELSE IF f = tmp THEN Absent ELSE disk[f]]
                /\ proc' = [proc EXCEPT ![p].pc = "write_csv"]
           ELSE /\ disk' = disk
                /\ proc' = [proc EXCEPT ![p].pc = "unlock"]
    /\ UNCHANGED <<fcntl, flock, memVars>>

\* `df.to_csv(tmp_csv, ...)`
ProcWriteCsv(p) ==
    /\ proc[p].pc = "write_csv"
    /\ disk' = [disk EXCEPT ![TmpPath(CsvPath)] =
                   File(rows_from_records(proc[p].records), WriteChunks, FALSE)]
    /\ proc' = [proc EXCEPT ![p].pc = "rename_csv"]
    /\ UNCHANGED <<fcntl, flock, memVars>>

\* `tmp_csv.replace(RECORDS_CSV_PATH)`
ProcRenameCsv(p) ==
    /\ proc[p].pc = "rename_csv"
    /\ LET tmp == TmpPath(CsvPath)
       IN  disk' = IF disk[tmp].exists
                   THEN [f \in DOMAIN disk |->
                           IF f = CsvPath THEN disk[tmp]
                           ELSE IF f = tmp THEN Absent ELSE disk[f]]
                   ELSE disk
    /\ proc' = [proc EXCEPT ![p].pc = "unlock"]
    /\ UNCHANGED <<fcntl, flock, memVars>>

\* _FileLock.release, and the method returns
ProcUnlock(p) ==
    /\ proc[p].pc = "unlock"
    /\ flock' = Unlocked(p)
    /\ proc' = [proc EXCEPT ![p].pc = "idle", ![p].rows = <<>>, ![p].n = 0]
    /\ UNCHANGED <<fcntl, disk, memVars>>

\* the process dies at any point; its memory is lost and the kernel drops
\* its lock
ProcCrash(p) ==
    /\ proc[p].pc \notin {"down", "failed"}
    /\ flock' = Unlocked(p)
    /\ proc' = [proc EXCEPT ![p] = [ProcIdle EXCEPT !.pc = "down"]]
    /\ UNCHANGED <<fcntl, disk, memVars>>

\* the process starts again: RecordStore() runs _load, which reads
\* records.json and persists; an exception of from_legacy_dict ends the
\* process at startup
ProcRestart(p, now) ==
    /\ proc[p].pc \in {"down", "failed"}
    /\ LET loaded == LoadOutcome(disk[JsonPath], now)
       IN  proc' = [proc EXCEPT ![p] =
                      IF loaded.ok
                      THEN [ProcIdle EXCEPT !.pc = "rows",
                                            !.records = loaded.records]
                      ELSE [ProcIdle EXCEPT !.pc = "failed"]]
    /\ UNCHANGED <<fcntl, flock, disk, memVars>>

NextDisk ==
    \E p \in Procs :
        \/ \E r \in ProcInputs : ProcUpsert(p, r)
        \/ ProcRows(p)
        \/ ProcFlock(p)
        \/ ProcOpenJson(p)
        \/ ProcWriteJson(p)
        \/ ProcRenameJson(p)
        \/ ProcWriteCsv(p)
        \/ ProcRenameCsv(p)
        \/ ProcUnlock(p)
        \/ ProcCrash(p)
        \/ ProcRestart(p, DateTime(7, 7))

\* two processes on one directory, on a platform that has fcntl
SpecCrash == Init /\ [][NextDisk]_vars

\* everything but the directory and the processes, as in Init
InitMem ==
    /\ max_retries = DefaultMaxRetries
    /\ fetch = [t \in Threads |-> FetchIdle]
    /\ pipe = [t \in Threads |-> PipeIdle]
    /\ lock = "free"
    /\ thr = [t \in Threads |-> ThreadIdle]
    /\ serial = <<>>
    /\ InitStore

\* the same on either kind of platform
InitAnyPlatform ==
    /\ InitMem
    /\ fcntl \in BOOLEAN
    /\ InitDisk

SpecDisk == InitAnyPlatform /\ [][NextDisk]_vars

\* two processes that construct RecordStore on the empty directory and
\* upsert records with different ids; neither dies
StoreInputs == {RecA1, RecB}

NextStores ==
    \E p \in Procs :
        \/ \E r \in StoreInputs : ProcUpsert(p, r)
        \/ ProcRows(p)
        \/ ProcFlock(p)
        \/ ProcOpenJson(p)
        \/ ProcWriteJson(p)
        \/ ProcRenameJson(p)
        \/ ProcWriteCsv(p)
        \/ ProcRenameCsv(p)
        \/ ProcUnlock(p)

SpecStores == InitAnyPlatform /\ [][NextStores]_vars

\* ------------------------------------------------------------- startup
\* a dict entry whose Title is null
NullTitle ==
    [k \in {"Title", "DOI"} |-> IF k = "Title" THEN None ELSE PyStr(DoiB)]

\* a dict entry with a title and nothing else
TitleOnly == [k \in {"Title"} |-> PyStr(<<"t">>)]

\* what records.json may hold when the program starts: nothing, a cut-off
\* document, a document that is not a list, lists with entries that are not
\* dicts, that lack keys, or that hold a null field
Snapshots ==
    {Absent,
     File(JsonRows(<<RecA1>>), 1, FALSE),
     NotAList,
     File(<<PyInt(1), to_legacy_dict(RecB)>>, WriteChunks, FALSE),
     File(<<TitleOnly>>, WriteChunks, FALSE),
     File(<<to_legacy_dict(RecB), NullTitle>>, WriteChunks, FALSE)}

\* records.json is replaced from outside while the program is not running
Tamper(p, snapshot) ==
    /\ proc[p].pc \in {"down", "failed"}
    /\ disk' = [disk EXCEPT ![JsonPath] = snapshot]
    /\ UNCHANGED <<fcntl, flock, proc, memVars>>

InitLoad ==
    /\ InitMem
    /\ fcntl = TRUE
    /\ flock = "free"
    /\ disk = [f \in {JsonPath, TmpPath(JsonPath), CsvPath, TmpPath(CsvPath)} |->
                 Absent]
    /\ proc = [p \in Procs |-> [ProcIdle EXCEPT !.pc = "down"]]

\* one process that is started, used, stopped and started again
NextLoad ==
    \/ \E snapshot \in Snapshots : Tamper("p1", snapshot)
    \/ ProcRestart("p1", DateTime(7, 7))
    \/ \E r \in ProcInputs : ProcUpsert("p1", r)
    \/ ProcRows("p1")
    \/ ProcFlock("p1")
    \/ ProcOpenJson("p1")
    \/ ProcWriteJson("p1")
    \/ ProcRenameJson("p1")
    \/ ProcWriteCsv("p1")
    \/ ProcRenameCsv("p1")
    \/ ProcUnlock("p1")
    \/ ProcCrash("p1")

SpecLoad == InitLoad /\ [][NextLoad]_vars

\* -------------------------------------------------------------- exports
expVars == <<fcntl, flock, proc, max_retries, fetch, pipe, store0, serial>>

\* thread t calls export_xlsx()
ExportCall(t) ==
    /\ thr[t].pc = "idle"
    /\ thr' = [thr EXCEPT ![t] =
                 [ThreadIdle EXCEPT !.pc = "x_called", !.op = "export_xlsx"]]
    /\ UNCHANGED <<lock, disk, storeVars, expVars>>

\* `with self._lock: export_rows = rows_from_records(self._records)`
ExportRows(t) ==
    /\ thr[t].pc = "x_called"
    /\ LockFree(lock)
    /\ thr' = [thr EXCEPT ![t].pc = "x_open",
                          ![t].rows = rows_from_records(records)]
    /\ UNCHANGED <<lock, disk, storeVars, expVars>>

\* df.to_excel(tmp_path) opens records.xlsx.tmp, which truncates it
ExportOpen(t) ==
    /\ thr[t].pc = "x_open"
    /\ disk' = [disk EXCEPT ![TmpPath(XlsxPath)] = File(thr[t].rows, 0, FALSE)]
    /\ thr' = [thr EXCEPT ![t].pc = "x_write", ![t].n = 0]
    /\ UNCHANGED <<lock, storeVars, expVars>>

\* df.to_excel writes the next part of the workbook through its handle: to
\* the temporary file, or to the file that was renamed since it was opened
ExportWrite(t) ==
    /\ thr[t].pc = "x_write"
    /\ LET tmp == TmpPath(XlsxPath)
           f == disk[tmp]
           mine == ~f.mixed /\ f.data = thr[t].rows /\ f.written = thr[t].n
       IN  disk' = IF f.exists
                   THEN [disk EXCEPT ![tmp] =
                            File(thr[t].rows, thr[t].n + 1, ~mine)]
                   ELSE [disk EXCEPT ![XlsxPath].mixed = TRUE]
    /\ thr' = [thr EXCEPT ![t].n = @ + 1,
                          ![t].pc = IF thr[t].n + 1 = WriteChunks
                                    THEN "x_replace" ELSE "x_write"]
    /\ UNCHANGED <<lock, storeVars, expVars>>

\* `tmp_path.replace(RECORDS_XLSX_PATH)` and the return; FileNotFoundError
\* when the temporary file is gone
ExportReplace(t) ==
    /\ thr[t].pc = "x_replace"
    /\ LET tmp == TmpPath(XlsxPath)
       IN  IF disk[tmp].exists
           THEN /\ disk' = [f \in DOMAIN disk |->
                              IF f = XlsxPath THEN disk[tmp]
                              ELSE IF f = tmp THEN Absent ELSE disk[f]]
                /\ thr' = [thr EXCEPT ![t] = ThreadIdle]
           ELSE /\ disk' = disk
                /\ thr' = [thr EXCEPT ![t] =
                             [ThreadIdle EXCEPT
                                 !.ret = RetError("FileNotFoundError")]]
    /\ UNCHANGED <<lock, storeVars, expVars>>

\* the store calls made while exports run
ExportMutations == {Call("upsert", RecA1), Call("delete", RecA1.id)}

\* two threads export; the first also changes the store
NextExport ==
    \/ \E c \in ExportMutations : ThreadCall("t1", c)
    \/ ThreadAcquire("t1")
    \/ ThreadModify("t1")
    \/ ThreadRows("t1")
    \/ ThreadWriteJson("t1")
    \/ ThreadWriteCsv("t1")
    \/ ThreadRelease("t1")
    \/ \E t \in Threads :
          \/ ExportCall(t)
          \/ ExportRows(t)
          \/ ExportOpen(t)
          \/ ExportWrite(t)
          \/ ExportReplace(t)

SpecExport == Init /\ [][NextExport]_vars

\* ------------------------------------------------- locks and I/O errors
\* store methods of two threads with the steps of _FileLock and the
\* OSError the operating system may raise at each I/O step; `file_lock` of
\* a thread says that it took self._file_lock._thread_lock and has not
\* released it, store0 is self._records as the method in the lock found it
opVars == <<fcntl, disk, proc, serial, max_retries, fetch, pipe, call, last>>

OpCalls ==
    {Call("upsert", RecA1), Call("delete", RecA1.id),
     Call("reorder", <<RecB.id, RecA1.id>>),
     Call("update_fields",
          [id |-> RecA1.id, updates |-> [k \in {"Title"} |-> PyStr(<<"x">>)]]),
     Call("get_by_id", RecA1.id)}

\* `self._thread_lock.acquire()` returns when no thread holds the lock
ThreadLockFree == \A u \in Threads : ~thr[u].file_lock

\* the method is left: by `return`, or by an exception that passes the
\* `with self._lock:` block, which releases the store lock
OpLeave(t, ret, holds) ==
    /\ lock' = "free"
    /\ thr' = [thr EXCEPT ![t].pc = "idle", ![t].ret = ret,
                          ![t].rows = <<>>, ![t].file_lock = holds]

\* thread t calls a store method
OpCall(t, c) ==
    /\ thr[t].pc = "idle"
    /\ thr' = [thr EXCEPT ![t].pc = "called", ![t].op = c.op,
                          ![t].arg = c.arg, ![t].ret = None]
    /\ UNCHANGED <<lock, flock, store0, records, json_file, csv_file, opVars>>

\* `with self._lock:` is entered
OpLock(t) ==
    /\ thr[t].pc = "called"
    /\ LockFree(lock)
    /\ lock' = t
    /\ thr' = [thr EXCEPT ![t].pc = "locked"]
    /\ UNCHANGED <<flock, store0, records, json_file, csv_file, opVars>>

\* the method changes self._records; without a persistence cycle it
\* returns, else _persist_files builds `rows`
OpModify(t) ==
    /\ thr[t].pc = "locked"
    /\ LET out == StoreApply(thr[t].op, thr[t].arg, records, DateTime(9, 9))
       IN  /\ records' = out.records
           /\ store0' = records
           /\ IF out.persists
              THEN /\ thr' = [thr EXCEPT ![t].pc = "file_lock",
                                         ![t].ret = out.ret,
                                         ![t].rows = JsonRows(out.records)]
                   /\ lock' = lock
              ELSE OpLeave(t, out.ret, thr[t].file_lock)
    /\ UNCHANGED <<flock, json_file, csv_file, opVars>>

\* _FileLock.acquire: `self._thread_lock.acquire()`
OpThreadLock(t) ==
    /\ thr[t].pc = "file_lock"
    /\ ThreadLockFree
    /\ thr' = [thr EXCEPT ![t].pc = "flock", ![t].file_lock = TRUE]
    /\ UNCHANGED <<lock, flock, store0, records, json_file, csv_file, opVars>>

\* _FileLock.acquire: `if fcntl:` mkdir, open and flock; flock returns when
\* no other handle holds the lock
OpFlock(t) ==
    /\ thr[t].pc = "flock"
    /\ fcntl => FlockFree(flock)
    /\ flock' = IF fcntl THEN t ELSE flock
    /\ thr' = [thr EXCEPT ![t].pc = "json"]
    /\ UNCHANGED <<lock, store0, records, json_file, csv_file, opVars>>

\* _FileLock.acquire: mkdir, open or flock raises OSError; __enter__ has
\* not returned, so __exit__ is not called and release() does not run
OpFlockFails(t) ==
    /\ thr[t].pc = "flock"
    /\ fcntl
    /\ OpLeave(t, RetError("OSError"), TRUE)
    /\ UNCHANGED <<flock, store0, records, json_file, csv_file, opVars>>

\* _atomic_write_bytes(RECORDS_JSON_PATH, ...)
OpWriteJson(t) ==
    /\ thr[t].pc = "json"
    /\ json_file' = thr[t].rows
    /\ thr' = [thr EXCEPT ![t].pc = "csv"]
    /\ UNCHANGED <<lock, flock, store0, records, csv_file, opVars>>

\* df.to_csv(tmp_csv) and tmp_csv.replace(RECORDS_CSV_PATH)
OpWriteCsv(t) ==
    /\ thr[t].pc = "csv"
    /\ csv_file' = rows_from_records(records)
    /\ thr' = [thr EXCEPT ![t].pc = "unlock"]
    /\ UNCHANGED <<lock, flock, store0, records, json_file, opVars>>

\* write_bytes, to_csv or replace raises OSError inside `with
\* self._file_lock:`; __exit__ calls release() and the exception goes on
OpWriteFails(t) ==
    /\ thr[t].pc \in {"json", "csv"}
    /\ flock' = Unlocked(t)
    /\ OpLeave(t, RetError("OSError"), FALSE)
    /\ UNCHANGED <<store0, records, json_file, csv_file, opVars>>

\* _FileLock.release at the end of the `with` block, and the return
OpUnlock(t) ==
    /\ thr[t].pc = "unlock"
    /\ flock' = Unlocked(t)
    /\ OpLeave(t, thr[t].ret, FALSE)
    /\ UNCHANGED <<store0, records, json_file, csv_file, opVars>>

\* another process on the directory takes the flock for a persistence cycle
OtherFlock ==
    /\ fcntl
    /\ FlockFree(flock)
    /\ flock' = "p2"
    /\ UNCHANGED <<lock, thr, store0, records, json_file, csv_file, opVars>>

\* and releases it
OtherUnlock ==
    /\ flock = "p2"
    /\ flock' = "free"
    /\ UNCHANGED <<lock, thr, store0, records, json_file, csv_file, opVars>>

NextOps ==
    \/ \E t \in Threads :
          \/ \E c \in OpCalls : OpCall(t, c)
          \/ OpLock(t)
          \/ OpModify(t)
          \/ OpThreadLock(t)
          \/ OpFlock(t)
          \/ OpFlockFails(t)
          \/ OpWriteJson(t)
          \/ OpWriteCsv(t)
          \/ OpWriteFails(t)
          \/ OpUnlock(t)
    \/ OtherFlock
    \/ OtherUnlock

SpecOps == InitAnyPlatform /\ [][NextOps]_vars

\* fair scheduling: a thread that can go on does, a thread waiting for a
\* lock that is free again and again gets it, and the other process
\* finishes its persistence cycle
FairOps ==
    /\ \A t \in Threads :
          /\ SF_vars(OpLock(t))
          /\ WF_vars(OpModify(t))
          /\ SF_vars(OpThreadLock(t))
          /\ SF_vars(OpFlock(t))
          /\ WF_vars(OpWriteJson(t))
          /\ WF_vars(OpWriteCsv(t))
          /\ WF_vars(OpUnlock(t))
    /\ WF_vars(OtherUnlock)

SpecOpsFair == SpecOps /\ FairOps

\* ------------------------------------------ racing resolves and deletes
\* process_local_pdf calls of two threads, made again and again from the
\* empty store, and deletes other callers make meanwhile
ResolvePdfs ==
    {Pdf(<<"f">>, <<DoiA>>), Pdf(<<"G">>, <<DoiA>>), Pdf(<<"f">>, <<DoiB>>)}

NextResolves ==
    \/ \E t \in Threads, pdf \in ResolvePdfs : PipeStart(t, pdf)
    \/ PipeQuery("t1", DateTime(3, 5))
    \/ PipeQuery("t2", DateTime(4, 0))
    \/ \E t \in Threads : PipeLookup(t) \/ PipeUpsert(t)
    \/ Invoke("delete", RecA1.id)
    \/ Delete

SpecResolves == Init /\ [][NextResolves]_vars

\* ------------------------------------------- store calls and a pipeline
\* the store calls other callers make while process_local_pdf runs; every
\* store method holds the lock for its whole body, so each is one step
MixedOrders == {<<RecB.id, RecB.id>>, <<RecB.id, RecA1.id>>}
MixedPdfs == {Pdf(<<"f">>, <<DoiA>>), Pdf(<<"G">>, <<DoiB>>)}

NextMixed ==
    \/ \E pdf \in MixedPdfs : PipeStart("t1", pdf)
    \/ PipeQuery("t1", DateTime(3, 5))
    \/ PipeLookup("t1")
    \/ PipeUpsert("t1")
    \/ \E r \in {RecA1, RecB} : Invoke("upsert", r)
    \/ Invoke("delete", RecA1.id)
    \/ \E order \in MixedOrders : Invoke("reorder", order)
    \/ Invoke("update_fields",
              [id |-> RecA1.id, updates |-> [k \in {"DOI"} |-> PyStr(DoiB)]])
    \/ Upsert
    \/ Delete
    \/ Reorder
    \/ UpdateFields

SpecMixed == Init /\ [][NextMixed]_vars

\* -------------------------------------------------------------- lookups
\* the DOIs callers look up: stored ones in other spellings, one that is
\* not stored, and blank ones
DoiQueries ==
    {DoiA, DoiAVariant, DoiB, <<"B", " ">>, DoiC, DoiBlank, <<>>}

\* RecordStore.find_by_doi(doi)
FindByDoi ==
    /\ call.op = "find_by_doi"
    /\ LET found == find_by_doi(records, call.arg)
       IN  last' = IF found = None
                   THEN Last("find_by_doi", None, FALSE, 1)
                   ELSE Last("find_by_doi", RetRecord(found), TRUE, 1)
    /\ call' = NoCall
    /\ UNCHANGED <<records, json_file, csv_file, clientVars>>

\* upserts that fill the store, among them two records with one DOI under
\* different ids, and lookups
NextLookup ==
    \/ \E r \in {RecA1, RecA1Edited, RecB, RecG} : Invoke("upsert", r)
    \/ \E doi \in DoiQueries : Invoke("find_by_doi", doi)
    \/ Upsert
    \/ FindByDoi

SpecLookup == Init /\ [][NextLookup]_vars

\* -------------------------------------------------------- function calls
\* the DOI texts and file names handed to generate_record_id
DoiTexts == SeqsUpTo({" ", "a", "A", "b"}, MaxDoiLen)
FileNames == {<<>>, <<"f">>, <<" ", "G">>}

\* the pieces page texts are put together from: a DOI prefix, letters in
\* both cases, a full stop and a blank
DoiPrefix == <<"1", "0", ".", "1", "2", "3", "4", "/">>
Pieces == {DoiPrefix, <<"a">>, <<"A">>, <<".">>, <<" ">>}

RECURSIVE Flatten(_)
Flatten(pieces) ==
    IF pieces = <<>> THEN <<>> ELSE Head(pieces) \o Flatten(Tail(pieces))

\* what page.extract_text() gives for the first pages, joined
PageTexts == {Flatten(q) : q \in SeqsUpTo(Pieces, MaxPieces)}

\* what `issued["date-parts"][0][0]` may be in an upstream payload
YearInputs ==
    {None, PyInt(2020), PyInt(0), PyStr(<<"2", "0", "2", "0">>), PyStr(<<"0">>),
     PyStr(<<>>), PyStr(<<"a">>), PyStr(<<" ", "7">>), PyStr(<<"-", "7">>),
     PyFloat(2020, 0), PyFloat(2020, 5), PyInf, PyList, PyDict}

\* the calls of the functions that keep no state
FunctionCalls ==
    {Call("generate_record_id", [doi |-> d, file_name |-> f]) :
        d \in DoiTexts, f \in FileNames}
    \cup {Call("extract_doi_candidates", text) : text \in PageTexts}
    \cup {Call("_coerce_year", value) : value \in YearInputs}

\* a function is to be called: `call` holds the call and `last` nothing yet
InitFunctions ==
    /\ max_retries = DefaultMaxRetries
    /\ fetch = [t \in Threads |-> FetchIdle]
    /\ pipe = [t \in Threads |-> PipeIdle]
    /\ InitOther
    /\ records = <<>>
    /\ json_file = JsonRows(<<>>)
    /\ csv_file = rows_from_records(<<>>)
    /\ call \in FunctionCalls
    /\ last = Last("init", None, FALSE, 1)
    /\ store0 = <<>>

\* the function returns: `last` holds what it gave
Returns(ret) ==
    /\ last.op = "init"
    /\ last' = Last(call.op, ret, FALSE, 1)
    /\ UNCHANGED <<records, json_file, csv_file, call, clientVars>>

GenerateRecordId ==
    /\ call.op = "generate_record_id"
    /\ Returns(PyStr(generate_record_id(call.arg.doi, call.arg.file_name)))

ExtractDoiCandidates ==
    /\ call.op = "extract_doi_candidates"
    /\ Returns([t |-> "list", v |-> extract_doi_candidates(call.arg)])

CoerceYear ==
    /\ call.op = "_coerce_year"
    /\ Returns(coerce_year(call.arg))

NextFunctions ==
    \/ GenerateRecordId
    \/ ExtractDoiCandidates
    \/ CoerceYear

SpecFunctions == InitFunctions /\ [][NextFunctions]_vars

\* ------------------------------------------------------------------ claims
AllSeen(st, what) == \A i \in 1..Len(st.seen) : st.seen[i] = what

\* C1: with max_retries = n >= 0 and every response a 429, the client makes
\* exactly n+1 attempts and then fails with CrossrefRateLimit: it is still
\* running before attempt n+1, it has ended after it, and no further attempt
\* is made.
C1_RetryBudget429 ==
    \A t \in Threads :
        LET st == fetch[t]
        IN  (st.status # "idle" /\ AllSeen(st, "429")) =>
                /\ st.calls = Len(st.seen)
                /\ st.calls <= max_retries + 1
                /\ (st.calls < max_retries + 1) => st.status = "running"
                /\ (st.calls = max_retries + 1) =>
                        (st.status = "raised" /\ st.code = RATE_LIMIT)

C1_Witness ==
    /\ max_retries = 2
    /\ fetch["t1"].seen = <<"429", "429", "429">>
    /\ fetch["t1"].status = "raised"

\* C2: a 404 on any attempt ends the call at once with CrossrefNotFound:
\* it is the last response asked for, and the only sleeps taken are those
\* of the failures retried before it.
C2_NotFoundImmediate ==
    \A t \in Threads :
        LET st == fetch[t]
        IN  \A i \in 1..Len(st.seen) :
                st.seen[i] = "404" =>
                    /\ i = Len(st.seen)
                    /\ st.calls = i
                    /\ st.status = "raised"
                    /\ st.code = NOT_FOUND
                    /\ Len(st.waits) = i - 1

C2_Witness ==
    /\ max_retries = 2
    /\ fetch["t1"].seen = <<"429", "404">>
    /\ fetch["t1"].status = "raised"
    /\ fetch["t1"].attempt < max_retries

StoreUnchanged == UNCHANGED <<records, json_file, csv_file>>

HasId(recs, id) == \E i \in 1..Len(recs) : recs[i].id = id

FirstWithId(recs, id) ==
    CHOOSE i \in 1..Len(recs) :
        recs[i].id = id /\ \A j \in 1..(i - 1) : recs[j].id # id

\* C6: upsert(record) replaces the stored record with the same id at its
\* position when there is one and appends the record otherwise; every other
\* record stays where it was, and the record is what the call returns.
C6_UpsertPost(r) ==
    /\ last'.ret = RetRecord(r)
    /\ IF HasId(records, r.id)
       THEN LET p == FirstWithId(records, r.id)
            IN  /\ Len(records') = Len(records)
                /\ records'[p] = r
                /\ \A i \in 1..Len(records) : i # p => records'[i] = records[i]
       ELSE /\ Len(records') = Len(records) + 1
            /\ records'[Len(records')] = r
            /\ \A i \in 1..Len(records) : records'[i] = records[i]

C6_UpsertReplacesOrAppends == [][Upsert => C6_UpsertPost(call.arg)]_vars

\* a replacement in the middle of a store of three
C6_Witness ==
    /\ last.op = "upsert"
    /\ last.hit
    /\ Len(records) = 3
    /\ records[2] = last.ret.v

\* C7: upserting the record that was upserted by the call before leaves the
\* records, their order and the files as the first upsert left them.
C7_UpsertIdempotent ==
    [][(Upsert /\ last.op = "upsert" /\ last.ret = RetRecord(call.arg))
          => StoreUnchanged]_vars

C7_Witness ==
    /\ last.op = "upsert"
    /\ last.rep = 2
    /\ Len(records) >= 2

\* C8: a store built from records.json as the last persistence cycle wrote
\* it holds the same records, field for field, in the same order.
C8_RoundTrip == LoadRecords(json_file, DateTime(9, 9)) = records

Ids(recs) == {recs[i].id : i \in 1..Len(recs)}

FirstPos(seq, x) ==
    CHOOSE i \in 1..Len(seq) : seq[i] = x /\ \A j \in 1..(i - 1) : seq[j] # x

\* C9: reorder(order) gives a permutation of the store: first the records
\* whose ids occur in `order`, by first occurrence there, then the others in
\* their previous relative order; unknown and repeated ids are ignored.
C9_ReorderPost(order) ==
    LET named == Ids(records) \cap Elems(order)
        k == Cardinality(named)
        n == Len(records)
    IN  /\ Len(records') = n
        /\ \A i \in 1..n : \E j \in 1..n : records'[j] = records[i]
        /\ \A i, j \in 1..n : i # j => records'[i].id # records'[j].id
        /\ \A i \in 1..k : records'[i].id \in named
        /\ \A i, j \in 1..k :
               i < j => FirstPos(order, records'[i].id)
                            < FirstPos(order, records'[j].id)
        /\ \A i, j \in (k + 1)..n :
               i < j => FirstWithId(records, records'[i].id)
                            < FirstWithId(records, records'[j].id)

C9_ReorderPermutes == [][Reorder => C9_ReorderPost(call.arg)]_vars

\* a reorder that moved records, in a store of three
C9_Witness ==
    /\ last.op = "reorder"
    /\ last.hit
    /\ Len(records) = 3

\* the six names the claim lists
C10_Editable ==
    {"Title", "Venue", "Publication year", "Author list", "Abstract", "DOI"}

\* C10: update_fields with an empty dict or with any key that is not
\* editable fails with a validation error, whatever the id; with editable
\* keys and an id that is not stored it fails with a not-found error; a
\* failing call leaves the records and the files as they were.
C10_UpdatePost(id, u) ==
    /\ (DOMAIN u = {} \/ ~(DOMAIN u \subseteq C10_Editable))
            => last'.ret = RetError("ValueError")
    /\ (DOMAIN u # {} /\ DOMAIN u \subseteq C10_Editable /\ ~HasId(records, id))
            => last'.ret = RetError("KeyError")
    /\ last'.ret.t = "error" => StoreUnchanged

C10_FailedUpdateNoMutation ==
    [][UpdateFields => C10_UpdatePost(call.arg.id, call.arg.updates)]_vars

\* a dict with an editable and a foreign key, rejected for a stored id
C10_Witness ==
    /\ last.op = "update_fields"
    /\ last.ret = RetError("ValueError")
    /\ Len(records) >= 2

\* the process_local_pdf call the claims below are about
Resolve == pipe["t1"]

\* _process_pdf has returned a record
Resolved(p) == p.pc \in {"lookup", "upsert", "done"}

\* the candidates asked for so far are the first ones of the list, in order
QueriedInOrder(p) ==
    /\ Len(p.queried) <= Len(p.cands)
    /\ \A i \in 1..Len(p.queried) : p.queried[i].doi = p.cands[i]

\* every candidate before the last one asked was answered not-found and the
\* last one asked succeeded
FallbackSucceeded(p) ==
    /\ p.queried # <<>>
    /\ \A i \in 1..(Len(p.queried) - 1) : p.queried[i].code = NOT_FOUND
    /\ p.queried[Len(p.queried)].code = "ok"

\* C3: the candidates are asked in list order, each once; when every
\* candidate before position k was answered CrossrefNotFound and candidate k
\* succeeded, _process_pdf has raised nothing and has returned the record
\* normalize_metadata builds from candidate k's payload (process_local_pdf
\* may then give it the id of a stored record), and nothing after k is asked.
C3_FallbackToCandidateK ==
    LET p == Resolve
        k == Len(p.queried)
    IN  /\ QueriedInOrder(p)
        /\ p.pc = "loop" => p.idx = k + 1
        /\ FallbackSucceeded(p) =>
              /\ Resolved(p)
              /\ p.error = "none"
              /\ p.record # None
              /\ LET normalized ==
                         normalize_metadata(p.queried[k].message, p.file,
                                            p.cands[k], <<>>,
                                            p.record.v.saved_at)
                 IN  /\ [p.record.v EXCEPT !.id = normalized.id] = normalized
                     /\ p.pc = "lookup" => p.record.v = normalized

\* the second candidate succeeded after the first was not found, and the DOI
\* of the record is the candidate itself
C3_Witness ==
    /\ Resolve.pc = "done"
    /\ Len(Resolve.queried) = 2
    /\ FallbackSucceeded(Resolve)
    /\ Resolve.record.v.doi = Resolve.cands[2]

\* C4: when fetch_metadata fails for a candidate with CrossrefRateLimit,
\* CrossrefServerError or CrossrefRequestFailed, _process_pdf fails at once
\* with that code and no later candidate is asked.
C4_OtherFailureAborts ==
    LET p == Resolve
    IN  \A i \in 1..Len(p.queried) :
            p.queried[i].code \in {RATE_LIMIT, SERVER_ERROR, REQUEST_FAILED} =>
                /\ i = Len(p.queried)
                /\ p.pc = "failed"
                /\ p.error = p.queried[i].code
                /\ p.record = None

\* the first of two candidates was rate limited and the call has failed
C4_Witness ==
    /\ Resolve.pc = "failed"
    /\ Resolve.error = RATE_LIMIT
    /\ Len(Resolve.queried) = 1
    /\ Len(Resolve.cands) = 2

\* the positions of the stored records whose normalized DOI is that of doi
SameDoi(recs, doi) ==
    {i \in 1..Len(recs) : normalize_doi(recs[i].doi) = normalize_doi(doi)}

Min(S) == CHOOSE i \in S : \A j \in S : i <= j

\* C5 as stated: when the store holds a record whose normalized DOI equals
\* that of the resolved record, the upsert of process_local_pdf does not grow
\* the store, replaces that record at its position, and the record returned
\* carries that record's id.
C5_SameDoiNeverDuplicates ==
    [][PipeUpsert("t1") =>
        LET rec == Resolve.record.v
            same == SameDoi(records, rec.doi)
        IN  same # {} =>
              /\ Len(records') = Len(records)
              /\ \E j \in same : /\ records'[j] = rec
                                  /\ rec.id = records[j].id
                                  /\ last'.ret.v.id = records[j].id]_vars

\* what find_by_doi and the id assignment give for the resolved record
C5_LookupPost ==
    LET rec == Resolve.record.v
        same == SameDoi(records, rec.doi)
    IN  IF normalize_doi(rec.doi) # <<>> /\ same # {}
        THEN /\ Resolve'.existing = PyStr(records[Min(same)].id)
             /\ Resolve'.record.v = [rec EXCEPT !.id = records[Min(same)].id]
        ELSE /\ Resolve'.existing = None
             /\ Resolve'.record.v = rec

\* what the upsert gives when the lookup found a record
C5_UpsertPost ==
    LET rec == Resolve.record.v
    IN  Resolve.existing # None =>
          /\ rec.id = Resolve.existing.v
          /\ last'.ret = RetRecord(rec)
          /\ HasId(records, rec.id) =>
                /\ Len(records') = Len(records)
                /\ records'[FirstWithId(records, rec.id)] = rec
                /\ \A i \in 1..Len(records) :
                      i # FirstWithId(records, rec.id) => records'[i] = records[i]

\* C5, amended: when the resolved DOI is not blank and the store holds a
\* record with that normalized DOI, the resolved record takes the id of the
\* first such record and is returned with it; if that id is still stored
\* when the upsert runs, the store does not grow and the record with that id
\* is replaced at its position. A blank DOI matches nothing.
C5_NonBlankDoiReusesId ==
    [][/\ PipeLookup("t1") => C5_LookupPost
       /\ PipeUpsert("t1") => C5_UpsertPost]_vars

\* a record of DoiB resolved from another file has replaced the stored
\* record with that DOI and carries its id, not the id its own DOI gives
C5_Witness ==
    /\ Resolve.pc = "done"
    /\ Resolve.existing # None
    /\ Resolve.record.v.id = Resolve.existing.v
    /\ Resolve.record.v.id # generate_record_id(Resolve.record.v.doi, Resolve.file)
    /\ Resolve.record.v.file_name # RecA1Edited.file_name
    /\ records = <<Resolve.record.v>>

\* the PaperRecord field an editable column is stored in
FieldOf(column) ==
    CASE column = "Title" -> "title"
      [] column = "Venue" -> "venue"
      [] column = "Publication year" -> "publication_year"
      [] column = "Author list" -> "author_list"
      [] column = "Abstract" -> "abstract"
      [] column = "DOI" -> "doi"

\* update_fields(record_id, updates) passes its checks and finds the record
UpdateSucceeds(record_id, updates) ==
    /\ ~UpdatesRejected(updates)
    /\ HasId(records, record_id)

\* C11: a successful update_fields(id, updates) changes only the fields named
\* in updates, on the one record with that id: its id, file_name, source_url
\* and saved_at, every field not named (publication_year included), its
\* position and all other records are as before.
C11_UpdatePost(record_id, updates) ==
    LET idx == FirstWithId(records, record_id)
        old == records[idx]
        new == records'[idx]
    IN  /\ Len(records') = Len(records)
        /\ \A i \in 1..Len(records) : i # idx => records'[i] = records[i]
        /\ new.id = old.id
        /\ new.file_name = old.file_name
        /\ new.source_url = old.source_url
        /\ new.saved_at = old.saved_at
        /\ \A column \in Elems(EDITABLE_COLUMNS) \ DOMAIN updates :
              new[FieldOf(column)] = old[FieldOf(column)]

C11_UpdateChangesOnlyNamedFields ==
    [][(UpdateFields /\ UpdateSucceeds(call.arg.id, call.arg.updates)) =>
          C11_UpdatePost(call.arg.id, call.arg.updates)]_vars

\* the threads that are between taking the store lock and releasing it
Inside == {t \in Threads : thr[t].pc \in InSection}

\* C12: at most one store call is inside its read-modify-persist section at
\* a time, and whenever no call is inside one, the list in memory and the
\* files on disk are those the calls give when run one after another in the
\* order they took the lock.
C12_MutexAndSerial ==
    /\ Cardinality(Inside) <= 1
    /\ \A t \in Inside : lock = t
    /\ Inside = {} =>
          /\ lock = "free"
          /\ records = serial
          /\ json_file = JsonRows(serial)
          /\ csv_file = rows_from_records(serial)

\* one thread is inside upsert with the list changed and the files not yet
\* written while the other waits for the lock with a delete
C12_Witness ==
    /\ thr["t1"].pc = "json"
    /\ thr["t1"].op = "upsert"
    /\ thr["t2"].pc = "called"
    /\ thr["t2"].op = "delete"
    /\ json_file # JsonRows(records)

\* thread t is in get_by_id(id) right after its own upsert of a record with
\* that id, and reads the list
ReadsOwnWrite(t) ==
    /\ ThreadModify(t)
    /\ thr[t].op = "get_by_id"
    /\ thr[t].prev # None
    /\ thr[t].prev.v.id = thr[t].arg

\* C13 as stated: get_by_id(record.id) right after the caller's own
\* upsert(record) returns that record, never None and never another value.
C13_ReadYourWrite ==
    [][\A t \in Threads : ReadsOwnWrite(t) => thr'[t].ret = thr[t].prev]_vars

\* C13, amended: get_by_id(record.id) right after the caller's own
\* upsert(record) returns that record when no other caller has changed what
\* is stored under that id between the two calls.
C13_ReadYourWriteIfIntact ==
    [][\A t \in Threads :
          (ReadsOwnWrite(t) /\ thr[t].intact) => thr'[t].ret = thr[t].prev]_vars

\* get_by_id is about to return the record the thread upserted over an
\* earlier version, with another record stored as well
C13_Witness ==
    /\ thr["t1"].pc = "release"
    /\ thr["t1"].op = "get_by_id"
    /\ thr["t1"].intact
    /\ thr["t1"].prev = RetRecord(RecA2)
    /\ thr["t1"].ret = RetRecord(RecA2)
    /\ Len(records) = 2

\* both pipelines have completed, and they were asked for the same DOI last
BothDone ==
    /\ \A t \in Threads : pipe[t].pc = "done"
    /\ normalize_doi(pipe["t1"].record.v.doi) = normalize_doi(pipe["t2"].record.v.doi)

\* the store holds one record with the DOI and the id of the record upserted
\* last, and it is that record
OneRecordLastWins ==
    LET winner == last.ret.v
    IN  /\ winner \in {pipe[t].record.v : t \in Threads}
        /\ Cardinality(SameDoi(records, winner.doi)) = 1
        /\ Cardinality({i \in 1..Len(records) : records[i].id = winner.id}) = 1
        /\ get_by_id(records, winner.id) = winner
        /\ find_by_doi(records, winner.doi) \in {winner, None}

\* C14 as stated: when two pipelines that race on the same DOI have both
\* completed, the store holds exactly one record for that DOI and id, the
\* record of the pipeline whose upsert ran last.
C14_LastWriterWins == BothDone => OneRecordLastWins

\* C14, amended: the same, for a resolved DOI that is not blank and that at
\* most one record of the store had when the pipelines started.
C14_LastWriterWinsNonBlank ==
    (/\ BothDone
     /\ normalize_doi(pipe["t1"].record.v.doi) # <<>>
     /\ Cardinality(SameDoi(store0, pipe["t1"].record.v.doi)) <= 1) =>
        OneRecordLastWins

\* both pipelines found no record at their lookup, both upserted, and the
\* record of the second one replaced that of the first
C14_Witness ==
    /\ BothDone
    /\ \A t \in Threads : pipe[t].existing = None
    /\ pipe["t1"].record.v # pipe["t2"].record.v
    /\ last.hit
    /\ records = <<last.ret.v>>

\* C15: whatever step a process has reached or died at, records.json is a
\* completely written snapshot, and the only step that changes what
\* records.json holds is the rename, which installs the file the renaming
\* process wrote in full from its rows.
C15_TargetChangesOnlyByRename ==
    disk'[JsonPath] # disk[JsonPath] =>
        \E p \in Procs :
            /\ proc[p].pc = "rename_json"
            /\ proc'[p].pc = "write_csv"
            /\ disk'[JsonPath] = File(proc[p].rows, WriteChunks, FALSE)

Writing(p) ==
    proc[p].pc \in {"open_json", "write_json", "rename_json",
                    "write_csv", "rename_csv", "unlock"}

WritesNeverInterleave ==
    /\ Cardinality({p \in Procs : Writing(p)}) <= 1
    /\ \A f \in DOMAIN disk : ~disk[f].mixed
    /\ \A p \in Procs :
          proc[p].pc = "rename_json" =>
              disk[TmpPath(JsonPath)] = File(proc[p].rows, WriteChunks, FALSE)

\* C16 as stated: at most one process is between acquiring and releasing
\* the file lock, no file holds bytes of two writers, and the file a process
\* is about to rename is the one it wrote in full.
C16_WritesNeverInterleave == WritesNeverInterleave

\* C16, amended: the same where the fcntl module is available.
C16_WritesNeverInterleaveWithFcntl == fcntl => WritesNeverInterleave

\* one process is part-way through writing the temporary file while the
\* other waits for the lock
C16_Witness ==
    /\ fcntl
    /\ \E p, q \in Procs :
          /\ proc[p].pc = "write_json" /\ proc[p].n = 1
          /\ flock = p
          /\ proc[q].pc = "flock"

\* C17: starting the program never fails, whatever records.json holds, and
\* once the persistence cycle that ends the load has finished, records.json
\* and records.csv hold exactly the loaded records.
C17_StartupNeverFails ==
    \A p \in Procs :
        /\ proc[p].pc # "failed"
        /\ proc[p].pc = "idle" =>
              /\ disk[JsonPath] = File(JsonRows(proc[p].records), WriteChunks, FALSE)
              /\ disk[CsvPath] =
                    File(rows_from_records(proc[p].records), WriteChunks, FALSE)

\* the statuses among the responses that are not 2xx, 404, 429 or 5xx
OtherStatuses ==
    {ToString(r.status) :
        r \in {x \in Responses \ {Exc} :
                 /\ ~(200 <= x.status /\ x.status < 300)
                 /\ x.status \notin {404, 429}
                 /\ ~(500 <= x.status /\ x.status < 600)}}

\* C18: a response whose status is not 2xx, 404, 429 or 5xx ends the call
\* at once with CrossrefRequestFailed: it is the last response asked for,
\* nothing is returned, and no sleep follows it.
C18_OtherStatusFailsImmediately ==
    \A t \in Threads :
        LET st == fetch[t]
        IN  \A i \in 1..Len(st.seen) :
                st.seen[i] \in OtherStatuses =>
                    /\ i = Len(st.seen)
                    /\ st.calls = i
                    /\ st.status = "raised"
                    /\ st.code = REQUEST_FAILED
                    /\ Len(st.waits) = i - 1

\* C19: however a call of fetch_metadata fails, the error is one of
\* CrossrefNotFound, CrossrefRateLimit, CrossrefServerError and
\* CrossrefRequestFailed, and a call that got a 2xx response whose body has
\* no `message` returned the empty payload.
C19_ClosedFailureSet ==
    \A t \in Threads :
        LET st == fetch[t]
        IN  /\ st.status = "raised" =>
                  st.code \in {NOT_FOUND, RATE_LIMIT, SERVER_ERROR, REQUEST_FAILED}
            /\ (st.status = "returned" /\ st.message # EmptyDict) =>
                  st.message \in Messages

AllNotFound(p) ==
    /\ p.queried # <<>>
    /\ \A i \in 1..Len(p.queried) : p.queried[i].code = NOT_FOUND

\* C20: when every candidate was answered CrossrefNotFound, the candidates
\* were asked for once each in their order and the call failed with the
\* CrossrefNotFound caught last, that of the last candidate; DoiNotFound is
\* raised only when no candidate was asked for.
C20_AllNotFoundRaisesLast ==
    \A t \in Threads :
        LET p == pipe[t]
        IN  /\ (AllNotFound(p) /\ p.pc = "loop") =>
                  /\ Len(p.queried) = p.idx - 1
                  /\ p.idx <= Len(p.cands)
            /\ (AllNotFound(p) /\ p.pc = "failed") =>
                  /\ p.error = NOT_FOUND
                  /\ p.last_error = NOT_FOUND
                  /\ Len(p.queried) = Len(p.cands)
                  /\ \A i \in 1..Len(p.cands) : p.queried[i].doi = p.cands[i]
            /\ (p.pc = "failed" /\ p.error = DOI_NOT_FOUND) =>
                  p.queried = <<>> /\ p.last_error = "none"

\* two candidates, both not found
C20_Witness ==
    /\ pipe["t1"].pc = "failed"
    /\ Len(pipe["t1"].cands) = 2
    /\ AllNotFound(pipe["t1"])
    /\ Len(pipe["t1"].queried) = 2
    /\ pipe["t1"].error = NOT_FOUND

\* C21: the id generate_record_id gives is "doi:" followed by the DOI in
\* lower case without surrounding blanks when that is not empty, whatever
\* the file name (so DOIs that differ in case and surrounding blanks only
\* get one id), and "file:" followed by the file name in lower case without
\* surrounding blanks when the DOI is empty or blank.
C21_IdIgnoresCaseAndBlanks ==
    (call.op = "generate_record_id" /\ last.op = "generate_record_id") =>
        LET trimmed == Strip(Lower(call.arg.doi))
        IN  last.ret =
                IF trimmed # <<>>
                THEN PyStr(<<"doi:">> \o trimmed)
                ELSE PyStr(<<"file:">> \o Strip(Lower(call.arg.file_name)))

\* a DOI in upper case between blanks, with a file name
C21_Witness ==
    /\ call = Call("generate_record_id",
                   [doi |-> <<" ", "A", " ">>, file_name |-> <<" ", "G">>])
    /\ last.ret = PyStr(<<"doi:", "a">>)

\* the matches of the DOI pattern in the text, each without trailing
\* ".", "," and ";" and in lower case
CleanedMatches(text) ==
    LET matches == FindAll(text, 1)
    IN  [k \in 1..Len(matches) |-> Lower(RStripPunctuation(matches[k]))]

FirstAt(seq, x) == CHOOSE k \in 1..Len(seq) : seq[k] = x /\ \A j \in 1..(k - 1) : seq[j] # x

\* C22: the candidates are the cleaned matches of the text, each once, in
\* the order of their first occurrence; no match gives the empty list.
C22_CandidatesFirstSeenOnce ==
    (call.op = "extract_doi_candidates" /\ last.op = "extract_doi_candidates") =>
        LET cleaned == CleanedMatches(call.arg)
            candidates == last.ret.v
        IN  /\ last.ret.t = "list"
            /\ \A i, j \in 1..Len(candidates) :
                  i # j => candidates[i] # candidates[j]
            /\ {candidates[i] : i \in 1..Len(candidates)}
                  = {cleaned[k] : k \in 1..Len(cleaned)}
            /\ \A i, j \in 1..Len(candidates) :
                  i < j => FirstAt(cleaned, candidates[i])
                             < FirstAt(cleaned, candidates[j])
            /\ cleaned = <<>> => candidates = <<>>

\* one DOI printed twice, the second time in upper case
C22_Witness ==
    /\ call.op = "extract_doi_candidates"
    /\ Len(FindAll(call.arg, 1)) = 2
    /\ last.op = "extract_doi_candidates"
    /\ last.ret.v = <<DoiPrefix \o <<"a">>>>

\* C25: _coerce_year gives the value itself for an int, the number an
\* all-digit string spells, and no year for every other value; it raises
\* nothing.
C25_YearOnlyIfLossless ==
    (call.op = "_coerce_year" /\ last.op = "_coerce_year") =>
        last.ret =
            IF call.arg.t = "int" THEN call.arg
            ELSE IF call.arg.t = "str" /\ IsDigit(call.arg.v)
            THEN PyInt(ToInt(call.arg.v))
            ELSE None

\* the positions of the records whose DOI, in lower case and without
\* surrounding blanks, is `trimmed`
WithDoi(recs, trimmed) ==
    {i \in 1..Len(recs) : Strip(Lower(recs[i].doi)) = trimmed}

C23_FindPost ==
    LET trimmed == Strip(Lower(call.arg))
        hits == WithDoi(records, trimmed)
    IN  /\ StoreUnchanged
        /\ last'.ret =
              IF trimmed = <<>> \/ hits = {}
              THEN None
              ELSE RetRecord(records[CHOOSE i \in hits : \A j \in hits : i <= j])

\* C23: find_by_doi(doi) gives none when the DOI is blank or no stored
\* record has it, and otherwise the first record in store order whose DOI
\* equals it up to case and surrounding blanks; the store and its files
\* stay as they are.
C23_FindByDoiFirstMatch == [][FindByDoi => C23_FindPost]_vars

\* two stored records have the DOI looked up and the first one is returned
C23_Witness ==
    /\ last.op = "find_by_doi"
    /\ Len(records) >= 2
    /\ last.ret = RetRecord(records[1])
    /\ records[2].id # records[1].id
    /\ Cardinality(WithDoi(records, Strip(Lower(records[1].doi)))) >= 2

C24_DeletePost ==
    LET record_id == call.arg
    IN  /\ last'.ret = RetBool(HasId(records, record_id))
        /\ IF HasId(records, record_id)
           THEN LET p == FirstWithId(records, record_id)
                IN  /\ Len(records') = Len(records) - 1
                    /\ \A i \in 1..(p - 1) : records'[i] = records[i]
                    /\ \A i \in p..Len(records') : records'[i] = records[i + 1]
                    /\ ~HasId(records', record_id)
           ELSE StoreUnchanged

\* C24: delete(id) returns true exactly when a record with that id is
\* stored; that record is then removed and the others keep their content
\* and order; otherwise it returns false and the list and the files stay
\* as they are.
C24_DeleteRemovesExactlyThatRecord == [][Delete => C24_DeletePost]_vars

\* a record was deleted from a store of three
C24_Witness ==
    /\ last.op = "delete"
    /\ last.ret = RetBool(TRUE)
    /\ Len(records) = 2

\* the outcomes that are retried, and the error each gives when it is the
\* outcome of the last attempt of the budget
Retried == {"exc", "429", "500", "503"}
ExhaustionCode(outcome) ==
    CASE outcome = "exc" -> REQUEST_FAILED
      [] outcome = "429" -> RATE_LIMIT
      [] OTHER -> SERVER_ERROR

C26_Budget ==
    \A t \in Threads :
        LET st == fetch[t]
            final == st.seen[Len(st.seen)]
        IN  /\ st.calls = Len(st.seen)
            /\ st.calls <= max_retries + 1
            /\ st.calls = max_retries + 1 => st.status # "running"
            /\ (st.status = "raised" /\ st.calls >= 1 /\ final \in Retried) =>
                  /\ st.calls = max_retries + 1
                  /\ st.code = ExhaustionCode(final)

\* C26: whatever mix of transport failures, 429 and 5xx responses a call
\* meets, it makes at most max_retries + 1 attempts in all, it ends, and
\* when the budget is used up the error is that of the last attempt's
\* outcome alone.
C26_SharedBudgetTerminates ==
    /\ []C26_Budget
    /\ (fetch["t1"].status = "running") ~> (fetch["t1"].status # "running")

\* a transport failure, a 5xx and a 429 used up a budget of three
C26_Witness ==
    /\ max_retries = 2
    /\ fetch["t1"].seen = <<"exc", "500", "429">>
    /\ fetch["t1"].status = "raised"
    /\ fetch["t1"].code = RATE_LIMIT

\* C27: the wait after 0-indexed attempt a is backoff^a when the attempt
\* met a transport failure and backoff^(a+1) when it met a 429 or 5xx;
\* every attempt that is retried is followed by exactly one wait, and the
\* attempt that ends the call by none.
C27_BackoffSchedule ==
    \A t \in Threads :
        LET st == fetch[t]
        IN  /\ Len(st.waits) =
                  IF st.status \in {"raised", "returned"} /\ st.calls >= 1
                  THEN st.calls - 1 ELSE st.calls
            /\ \A i \in 1..Len(st.waits) :
                  /\ st.seen[i] \in Retried
                  /\ st.waits[i].exp =
                        IF st.seen[i] = "exc" THEN i - 1 ELSE i

\* a transport failure, then a 429, then a success
C27_Witness ==
    /\ fetch["t1"].seen = <<"exc", "429", "200">>
    /\ fetch["t1"].status = "returned"
    /\ Len(fetch["t1"].waits) = 2
    /\ fetch["t1"].waits[1].exp = 0
    /\ fetch["t1"].waits[2].exp = 2

\* records.json holds the legacy rendering of every record in store order,
\* and records.csv one row of the CSV columns per record in that order
FilesMatchRecords ==
    /\ Len(json_file) = Len(records)
    /\ \A i \in 1..Len(records) : json_file[i] = to_legacy_dict(records[i])
    /\ Len(csv_file) = Len(records)
    /\ \A i \in 1..Len(records) :
          \A c \in Elems(CSV_COLUMNS) :
              csv_file[i][c] = to_legacy_dict(records[i])[c]

\* C28: after every completed upsert, delete, reorder, update_fields and
\* flush the two files render the records in memory, in store order; flush
\* changes no record and no position.
C28_FilesFollowMemory ==
    /\ [](call.op = "none" => FilesMatchRecords)
    /\ [][Flush => records' = records]_vars

\* a flush after the store was reordered
C28_Witness ==
    /\ last.op = "flush"
    /\ Len(records) = 3
    /\ records[1].id = RecB.id
    /\ FilesMatchRecords

\* C29: whatever export_xlsx calls and store calls run at once,
\* records.xlsx is never a partly written file and no export call fails.
C29_ExportAtomic ==
    /\ disk[XlsxPath].exists => Complete(disk[XlsxPath])
    /\ \A t \in Threads : thr[t].ret # RetError("FileNotFoundError")

\* C30: from an empty store, whatever upsert, delete, reorder, update_fields
\* and process_local_pdf calls are made in whatever order, no two stored
\* records have the same id.
C30_UniqueIds ==
    \A i, j \in 1..Len(records) : i # j => records[i].id # records[j].id

\* the pipeline stored its record over one that had its id, in a store of
\* two or more records
C30_Witness ==
    /\ pipe["t1"].pc = "done"
    /\ last.op = "upsert"
    /\ last.hit
    /\ Len(records) >= 2

\* C31: a step of process_local_pdf changes the records or the files only
\* when it is the upsert that follows a candidate that succeeded, and that
\* step ends the call; a step that fails the call (no candidates, all
\* candidates not found, a client error that propagates) changes neither,
\* and it is never taken after the call's upsert.
C31_ResolveStep ==
    pipe' # pipe =>
        /\ ~StoreUnchanged =>
              /\ Resolve.pc = "upsert"
              /\ Resolve'.pc = "done"
              /\ Resolve.error = "none"
              /\ Resolve.queried[Len(Resolve.queried)].code = "ok"
        /\ Resolve'.pc = "failed" =>
              /\ StoreUnchanged
              /\ Resolve.pc \in {"idle", "done", "failed", "loop"}
              /\ Resolve.pc \in {"idle", "done", "failed"} =>
                    Resolve'.queried = <<>>
        /\ Resolve.pc = "done" => Resolve'.queried = <<>>

C31_FailedResolveNoEffect == [][C31_ResolveStep]_vars

\* every candidate was not found and the call failed while the store holds
\* a record
C31_Witness ==
    /\ Resolve.pc = "failed"
    /\ Resolve.error = NOT_FOUND
    /\ Len(Resolve.queried) = 2
    /\ Len(records) >= 1

\* C32: from the empty store, whatever process_local_pdf calls and deletes
\* run in whatever interleaving, no two stored records have the same
\* normalized DOI unless it is empty.
C32_NoDuplicateDoi ==
    \A i, j \in 1..Len(records) :
        (i # j /\ normalize_doi(records[i].doi) # <<>>) =>
            normalize_doi(records[i].doi) # normalize_doi(records[j].doi)

\* two resolves of one DOI from different files both looked the DOI up
\* before either stored its record, and the store holds one record
C32_Witness ==
    /\ \A t \in Threads : pipe[t].pc = "done" /\ pipe[t].existing = None
    /\ pipe["t1"].file # pipe["t2"].file
    /\ SameDoi(records, pipe["t1"].record.v.doi) = {1}
    /\ SameDoi(records, pipe["t2"].record.v.doi) = {1}
    /\ Len(records) = 1

\* a thread in no store method holds no lock, and the file lock is taken
\* inside the store lock
C33_LocksReleased ==
    \A t \in Threads :
        /\ thr[t].pc = "idle" => lock # t /\ ~thr[t].file_lock /\ flock # t
        /\ thr[t].pc \in {"file_lock", "flock", "json", "csv", "unlock"} =>
              lock = t

\* C33: the file lock is taken only inside the store lock; a store method
\* that has returned or raised, a failed write included, holds neither
\* lock; and under fair scheduling every store method that is called is
\* left.
C33_DeadlockFree ==
    /\ []C33_LocksReleased
    /\ \A t \in Threads : (thr[t].pc # "idle") ~> (thr[t].pc = "idle")

\* C34: when a store method is left with the OSError of its persistence
\* cycle, self._records is what the method found and records.json holds
\* its rows.
C34_FailedWriteStep ==
    \A t \in Threads :
        (/\ thr[t].pc # "idle"
         /\ thr'[t].pc = "idle"
         /\ thr'[t].ret = RetError("OSError")) =>
            /\ records' = store0'
            /\ json_file' = JsonRows(records')

C34_MemoryNotAheadOfDisk == [][C34_FailedWriteStep]_vars

\* the snapshot of the whole list of process p, and of nothing else
OwnSnapshot(p) == File(JsonRows(proc[p].records), WriteChunks, FALSE)

\* a persistence cycle that replaces records.json installs the snapshot of
\* the writing process's own list
NoMergeStep ==
    \A p \in Procs :
        (proc[p].pc = "rename_json" /\ proc'[p].pc = "write_csv") =>
            disk'[JsonPath] = OwnSnapshot(p)

\* when both processes are in no method, records.json is the snapshot of
\* the list of one of them
NoMergeAtRest ==
    (\A p \in Procs : proc[p].pc = "idle") =>
        \E p \in Procs : disk[JsonPath] = OwnSnapshot(p)

\* C35 as stated: every persistence cycle puts the snapshot of the writing
\* process's own list in records.json, so that once both processes have
\* completed their mutations records.json is the snapshot of the list of
\* the process that persisted last, without the records only the other
\* process holds.
C35_NoMerge == []NoMergeAtRest /\ [][NoMergeStep]_vars

\* C35, amended: the same where the fcntl module is available.
C35_NoMergeWithFcntl ==
    [](fcntl => NoMergeAtRest) /\ [][fcntl => NoMergeStep]_vars

\* both processes have completed an upsert; records.json holds the record
\* of the second process only, and the first process still holds its own
C35_Witness ==
    /\ fcntl
    /\ \A p \in Procs : proc[p].pc = "idle"
    /\ proc["p1"].records = <<RecA1>>
    /\ proc["p2"].records = <<RecB>>
    /\ disk[JsonPath] = OwnSnapshot("p2")

====
